---- MODULE Spec2Model ----
(***************************************************************************)
(* A model of the BitVM2 splitter, the Winternitz u32 signer and the       *)
(* disprove-script builder.  Scripts are sequences of instructions, the    *)
(* script VM is a step function folded over a script, and every script     *)
(* builder of the repository is an operator that emits the instructions    *)
(* its `script!` block emits.                                              *)
(***************************************************************************)
EXTENDS Integers, Sequences, FiniteSets, TLC

(***************************************************************************)
(* Stack items.  An item is a record [k, v, c]:                            *)
(*   k = "num"   a minimally encoded script number of at most 4 bytes, v   *)
(*               its value;                                                *)
(*   k = "p5"    the 5-byte number 2^31 + v, k = "n5" the number -2^31 - v *)
(*               (results of arithmetic that left the 4-byte range);       *)
(*   k = "hash"  a 20-byte string: element v of the hash chain that starts *)
(*               at the random 20-byte secret c (v = 0 is the secret);     *)
(*   k = "hnum"  a 20-byte string: the number c hashed v times;            *)
(*   k = "hoth"  a 20-byte string: any other item hashed;                  *)
(*   k = "raw"   a number that is not minimally encoded: the encoding of   *)
(*               v >= 0 followed by c >= 1 zero bytes;                     *)
(*   k = "hraw"  a 20-byte string: a "raw" item hashed;                    *)
(*   k = "blob"  a string of v > 4 bytes that is none of the above.        *)
(***************************************************************************)
Abs(x) == IF x < 0 THEN -x ELSE x
Min2(a, b) == IF a < b THEN a ELSE b
Max2(a, b) == IF a < b THEN b ELSE a

\* 2^31 - 1, the largest magnitude of a 4-byte script number.
MaxNumOperand == 2147483647

Num(v) == [k |-> "num", v |-> v, c |-> 0]
HashOf(secret, level) == [k |-> "hash", v |-> level, c |-> secret]
Blob(n) == [k |-> "blob", v |-> n, c |-> 0]
Raw(v, pad) == [k |-> "raw", v |-> v, c |-> pad]

IsNum(x) == x.k = "num"

\* Byte length of the minimal script-number encoding of v.
ScriptNumLen(v) ==
    LET a == Abs(v) IN
    IF a = 0 THEN 0
    ELSE IF a < 128 THEN 1
    ELSE IF a < 32768 THEN 2
    ELSE IF a < 8388608 THEN 3
    ELSE 4

ItemLen(x) ==
    CASE x.k = "num" -> ScriptNumLen(x.v)
      [] x.k \in {"p5", "n5"} -> 5
      [] x.k = "raw" -> ScriptNumLen(x.v) + x.c
      [] x.k = "blob" -> x.v
      [] OTHER -> 20

\* Hash160, as a free chain: hashing a 20-byte string gives the next element
\* of its chain, hashing anything else starts a chain of its own.
Hash160(x) ==
    CASE x.k \in {"hash", "hnum", "hoth", "hraw"} -> [x EXCEPT !.v = @ + 1]
      [] x.k = "num" -> [k |-> "hnum", v |-> 1, c |-> x.v]
      [] x.k = "raw" -> [k |-> "hraw", v |-> 1, c |-> 8 * x.v + x.c]
      [] OTHER -> [k |-> "hoth", v |-> 1, c |-> x.v]

RECURSIVE HashTimes(_, _)
HashTimes(x, n) == IF n <= 0 THEN x ELSE HashTimes(Hash160(x), n - 1)

\* a + b as an item: a 4-byte number when it fits, else a 5-byte number.
NumItem(a, b) ==
    IF a > 0 /\ b > MaxNumOperand - a
        THEN [k |-> "p5", v |-> (a - MaxNumOperand) + (b - 1), c |-> 0]
    ELSE IF a < 0 /\ b < -MaxNumOperand - a
        THEN [k |-> "n5", v |-> -((a + MaxNumOperand) + (b + 1)), c |-> 0]
    ELSE Num(a + b)

(***************************************************************************)
(* Instructions and scripts.                                               *)
(***************************************************************************)
Op(name) == [op |-> name, arg |-> Num(0)]
\* `{ n }` of an integer in a script! block (push_int).
PushInt(v) == [op |-> "PUSHINT", arg |-> Num(v)]
\* `{ bytes }` of a byte vector in a script! block (push_slice).
PushBytes(x) == [op |-> "PUSHBYTES", arg |-> x]

PushDataLen(l) ==
    IF l <= 75 THEN 1 + l
    ELSE IF l <= 255 THEN 2 + l
    ELSE IF l <= 65535 THEN 3 + l
    ELSE 5 + l

\* Encoded length of one instruction in bytes.
InstrLen(ins) ==
    IF ins.op = "PUSHINT"
    THEN IF ins.arg.v \in -1..16 THEN 1 ELSE 1 + ScriptNumLen(ins.arg.v)
    ELSE IF ins.op = "PUSHBYTES" THEN PushDataLen(ItemLen(ins.arg))
    ELSE 1

RECURSIVE ScriptLen(_)
ScriptLen(scr) ==
    IF scr = <<>> THEN 0 ELSE InstrLen(Head(scr)) + ScriptLen(Tail(scr))

RECURSIVE Flatten(_)
Flatten(ss) == IF ss = <<>> THEN <<>> ELSE Head(ss) \o Flatten(Tail(ss))

Repeat(scr, n) == Flatten([i \in 1..n |-> scr])

(***************************************************************************)
(* The script VM (Tapscript context, minimal-push and stack-limit checks   *)
(* disabled).  A VM state holds the two stacks (top = last), the stack of  *)
(* open conditionals, the error flag, the largest magnitude of any number  *)
(* the run computed and whether a computed number left the 4-byte range.   *)
(***************************************************************************)
MAX_SCRIPT_ELEMENT_SIZE == 520

VmInit ==
    [stack |-> <<>>, alt |-> <<>>, cond |-> <<>>, err |-> FALSE, peak |-> 0,
     over |-> FALSE]

Fail(st) == [st EXCEPT !.err = TRUE]
Top(s, k) == s[Len(s) - k]
PopN(s, k) == SubSeq(s, 1, Len(s) - k)
\* Numeric opcodes read any string of at most 4 bytes (minimal encoding is
\* not required).
IsOperand(x) == IsNum(x) \/ (x.k = "raw" /\ ItemLen(x) <= 4)
Truthy(x) == ~(x.k \in {"num", "raw"} /\ x.v = 0)
Bool(b) == IF b THEN Num(1) ELSE Num(0)
Executing(st) == \A i \in 1..Len(st.cond) : st.cond[i]

\* Pushes the number a + b and records its magnitude (capped at 2^31 - 1
\* for a 5-byte result, which `over` flags).
PushNum(st, rest, a, b) ==
    LET x == NumItem(a, b) IN
    [st EXCEPT !.stack = Append(rest, x),
               !.peak = IF IsNum(x) THEN Max2(st.peak, Abs(x.v)) ELSE MaxNumOperand,
               !.over = st.over \/ ~IsNum(x)]

\* Removes the item at depth k (0 = top) from s.
RemoveAt(s, k) ==
    SubSeq(s, 1, Len(s) - k - 1) \o SubSeq(s, Len(s) - k + 1, Len(s))

\* Each arithmetic opcode gives its result as a sum <<x, y>> of two 4-byte
\* numbers, so that a result of 5 bytes is representable.
UnaryResult(o, a) ==
    CASE o = "OP_NEGATE" -> <<-a, 0>>
      [] o = "OP_NOT" -> <<IF a = 0 THEN 1 ELSE 0, 0>>
      [] o = "OP_1ADD" -> <<a, 1>>

BinaryResult(o, a, b) ==
    CASE o = "OP_ADD" -> <<a, b>>
      [] o = "OP_SUB" -> <<a, -b>>
      [] o = "OP_MIN" -> <<Min2(a, b), 0>>
      [] o = "OP_BOOLOR" -> <<IF a # 0 \/ b # 0 THEN 1 ELSE 0, 0>>

Unary(st, o) ==
    LET s == st.stack IN
    IF Len(s) < 1 \/ ~IsOperand(Top(s, 0)) THEN Fail(st)
    ELSE LET r == UnaryResult(o, Top(s, 0).v) IN PushNum(st, PopN(s, 1), r[1], r[2])

Binary(st, o) ==
    LET s == st.stack IN
    IF Len(s) < 2 \/ ~IsOperand(Top(s, 0)) \/ ~IsOperand(Top(s, 1)) THEN Fail(st)
    ELSE LET r == BinaryResult(o, Top(s, 1).v, Top(s, 0).v)
         IN PushNum(st, PopN(s, 2), r[1], r[2])

StepExec(st, ins) ==
    LET s == st.stack
        n == Len(s)
        o == ins.op
    IN
    CASE o \in {"PUSHINT", "PUSHBYTES"} ->
            IF ItemLen(ins.arg) > MAX_SCRIPT_ELEMENT_SIZE THEN Fail(st)
            ELSE [st EXCEPT !.stack = Append(s, ins.arg)]
      [] o \in {"OP_ADD", "OP_SUB", "OP_MIN", "OP_BOOLOR"} -> Binary(st, o)
      [] o \in {"OP_NEGATE", "OP_NOT", "OP_1ADD"} -> Unary(st, o)
      [] o = "OP_DUP" ->
            IF n < 1 THEN Fail(st) ELSE [st EXCEPT !.stack = Append(s, Top(s, 0))]
      [] o = "OP_DROP" ->
            IF n < 1 THEN Fail(st) ELSE [st EXCEPT !.stack = PopN(s, 1)]
      [] o = "OP_2DROP" ->
            IF n < 2 THEN Fail(st) ELSE [st EXCEPT !.stack = PopN(s, 2)]
      [] o = "OP_SWAP" ->
            IF n < 2 THEN Fail(st)
            ELSE [st EXCEPT !.stack = PopN(s, 2) \o <<Top(s, 0), Top(s, 1)>>]
      [] o = "OP_TUCK" ->
            IF n < 2 THEN Fail(st)
            ELSE [st EXCEPT !.stack = PopN(s, 2) \o <<Top(s, 0), Top(s, 1), Top(s, 0)>>]
      [] o = "OP_DEPTH" -> PushNum(st, s, n, 0)
      [] o \in {"OP_ROLL", "OP_PICK"} ->
            IF n < 1 \/ ~IsOperand(Top(s, 0)) THEN Fail(st)
            ELSE LET k == Top(s, 0).v
                     r == PopN(s, 1)
                 IN IF k < 0 \/ k >= Len(r) THEN Fail(st)
                    ELSE IF o = "OP_PICK"
                         THEN [st EXCEPT !.stack = Append(r, Top(r, k))]
                         ELSE [st EXCEPT !.stack = Append(RemoveAt(r, k), Top(r, k))]
      [] o = "OP_TOALTSTACK" ->
            IF n < 1 THEN Fail(st)
            ELSE [st EXCEPT !.stack = PopN(s, 1), !.alt = Append(st.alt, Top(s, 0))]
      [] o = "OP_FROMALTSTACK" ->
            IF Len(st.alt) < 1 THEN Fail(st)
            ELSE [st EXCEPT !.stack = Append(s, Top(st.alt, 0)),
                            !.alt = PopN(st.alt, 1)]
      [] o = "OP_EQUAL" ->
            IF n < 2 THEN Fail(st)
            ELSE [st EXCEPT !.stack = Append(PopN(s, 2), Bool(Top(s, 0) = Top(s, 1)))]
      [] o = "OP_EQUALVERIFY" ->
            IF n < 2 \/ Top(s, 0) # Top(s, 1) THEN Fail(st)
            ELSE [st EXCEPT !.stack = PopN(s, 2)]
      [] o = "OP_VERIFY" ->
            IF n < 1 \/ ~Truthy(Top(s, 0)) THEN Fail(st)
            ELSE [st EXCEPT !.stack = PopN(s, 1)]
      [] o = "OP_HASH160" ->
            IF n < 1 THEN Fail(st)
            ELSE [st EXCEPT !.stack = Append(PopN(s, 1), Hash160(Top(s, 0)))]
      [] o = "OP_RETURN" -> Fail(st)
      [] o = "OP_NOP" -> st
      [] OTHER -> Fail(st)

\* One instruction: the conditional opcodes act on the condition stack even
\* in a branch that is not executed; everything else is skipped there.
Step(st, ins) ==
    LET o == ins.op
        s == st.stack
    IN
    IF st.err THEN st
    ELSE IF o \in {"OP_IF", "OP_NOTIF"} THEN
        IF ~Executing(st) THEN [st EXCEPT !.cond = Append(st.cond, FALSE)]
        ELSE IF Len(s) < 1 \/ Top(s, 0) \notin {Num(0), Num(1)} THEN Fail(st)
        ELSE [st EXCEPT !.stack = PopN(s, 1),
                        !.cond = Append(st.cond, (Top(s, 0) = Num(1)) = (o = "OP_IF"))]
    ELSE IF o = "OP_ELSE" THEN
        IF st.cond = <<>> THEN Fail(st)
        ELSE [st EXCEPT !.cond[Len(st.cond)] = ~st.cond[Len(st.cond)]]
    ELSE IF o = "OP_ENDIF" THEN
        IF st.cond = <<>> THEN Fail(st)
        ELSE [st EXCEPT !.cond = PopN(st.cond, 1)]
    ELSE IF ~Executing(st) THEN st
    ELSE StepExec(st, ins)

RECURSIVE RunRange(_, _, _, _)
RunRange(scr, lo, hi, st) ==
    IF st.err \/ lo > hi THEN st
    ELSE IF lo = hi THEN Step(st, scr[lo])
    ELSE LET mid == (lo + hi) \div 2
         IN RunRange(scr, mid + 1, hi, RunRange(scr, lo, mid, st))

\* Runs scr from the VM state st; an unbalanced conditional at the end of
\* the script is an error.
Run(scr, st) ==
    LET r == RunRange(scr, 1, Len(scr), st)
    IN IF ~r.err /\ r.cond # <<>> THEN Fail(r) ELSE r

\* execute_script: the run from the empty VM, and the Tapscript success
\* rule (no error, exactly one item left, and it is true).
execute_script(scr) ==
    LET r == Run(scr, VmInit)
    IN [success |-> ~r.err /\ Len(r.stack) = 1 /\ Truthy(r.stack[1]),
        error |-> r.err,
        main_stack |-> r.stack,
        alt_stack |-> r.alt,
        peak |-> r.peak,
        over |-> r.over]

(***************************************************************************)
(* Winternitz signatures of u32 messages (bitcoin-winternitz/src/u32.rs).  *)
(***************************************************************************)
D == 15
V == 31

RECURSIVE ILog(_, _)
\* Integer logarithm: the largest e with b^e <= x.
ILog(x, b) == IF x < b THEN 0 ELSE 1 + ILog(x \div b, b)

BITS_PER_DIGIT == ILog(D + 1, 2)
N0 == (V + BITS_PER_DIGIT - 1) \div BITS_PER_DIGIT
N1 == ILog(D * N0, D + 1) + 1
N == N0 + N1

RECURSIVE Pow16(_)
Pow16(i) == IF i = 0 THEN 1 ELSE 16 * Pow16(i - 1)

RECURSIVE SumSeq(_)
SumSeq(s) == IF s = <<>> THEN 0 ELSE Head(s) + SumSeq(Tail(s))

\* SecretKey::from_seed: N random 20-byte chunks, here the starts of N hash
\* chains that no other seed shares.
from_seed(seed) == [j \in 1..N |-> HashOf(seed * N + j, 0)]

\* SecretKey::public_key: every chunk hashed D times.
public_key(sk) == [j \in 1..N |-> HashTimes(sk[j], D)]

\* A signer that walks every chain one step too far.
signHashingOnceMore(sk, m) == [j \in 1..N |-> <<m[j], HashTimes(sk[j], m[j] + 1)>>]

\* SecretKey::sign: chunk j hashed msg[j] times, paired with msg[j].
sign(sk, msg) == [j \in 1..N |-> <<msg[j], HashTimes(sk[j], msg[j])>>]

\* PublicKey::verify: the signature's hash, hashed D - msg[j] more times, is
\* the key's chunk; the digit stored in the signature is not read.
verify(pk, msg, sig) ==
    \A j \in 1..N : HashTimes(sig[j][2], D - msg[j]) = pk[j]

\* An encoding whose last two digits carry the digit sum itself.
from_u32_sum_as_checksum(m) ==
    LET digit(i) == (m \div Pow16(i)) % 16
        sum == SumSeq([i \in 1..N0 |-> digit(i - 1)]) % 256
    IN [j \in 1..N |->
            IF j <= N0 THEN digit(j - 1)
            ELSE IF j = N0 + 1 THEN sum % 16
            ELSE sum \div 16]

\* Message::from_u32, with the u8 width of `sum` and `checksum`.
from_u32(m) ==
    LET digit(i) == (m \div Pow16(i)) % 16
        sum == SumSeq([i \in 1..N0 |-> digit(i - 1)]) % 256
        checksum == (((D * N0) % 256) - sum) % 256
    IN [j \in 1..N |->
            IF j <= N0 THEN digit(j - 1)
            ELSE IF j = N0 + 1 THEN checksum % 16
            ELSE checksum \div 16]

\* Message::default(): the derived Default, ten zero digits.
DefaultMessage == [j \in 1..N |-> 0]

\* Message::into_u32.
into_u32(msg) == SumSeq([i \in 1..N0 |-> msg[i] * Pow16(i - 1)])

\* A recovery script that shifts every digit by one digit too many.
recovery_script_shifted ==
    Flatten([i \in 1..N0 |->
        Repeat(<<Op("OP_DUP"), Op("OP_ADD")>>, 4 * i) \o <<Op("OP_TOALTSTACK")>>])
    \o <<Op("OP_FROMALTSTACK")>>
    \o Repeat(<<Op("OP_FROMALTSTACK"), Op("OP_ADD")>>, N0 - 1)

\* Message::recovery_script.
recovery_script ==
    Flatten([i \in 1..N0 |->
        Repeat(<<Op("OP_DUP"), Op("OP_ADD")>>, 4 * (i - 1)) \o <<Op("OP_TOALTSTACK")>>])
    \o <<Op("OP_FROMALTSTACK")>>
    \o Repeat(<<Op("OP_FROMALTSTACK"), Op("OP_ADD")>>, N0 - 1)

\* Signature::to_script_sig: the pairs in reverse order, hash then digit.
to_script_sig(sig) ==
    Flatten([i \in 1..N |->
        <<PushBytes(sig[N + 1 - i][2]), PushInt(sig[N + 1 - i][1])>>])

\* The per-digit block of checksig_verify_script.
DigitVerify(pk_chunk) ==
    <<PushInt(D), Op("OP_MIN"), Op("OP_DUP"), Op("OP_TOALTSTACK"), Op("OP_TOALTSTACK")>>
    \o Repeat(<<Op("OP_DUP"), Op("OP_HASH160")>>, D)
    \o <<Op("OP_FROMALTSTACK"), Op("OP_PICK"), PushBytes(pk_chunk), Op("OP_EQUALVERIFY")>>
    \o Repeat(<<Op("OP_2DROP")>>, (D + 1) \div 2)

\* The checksum part of checksig_verify_script.
ChecksumVerify ==
    <<Op("OP_FROMALTSTACK")>>
    \o Repeat(Repeat(<<Op("OP_DUP"), Op("OP_ADD")>>, BITS_PER_DIGIT)
              \o <<Op("OP_FROMALTSTACK"), Op("OP_ADD")>>, N1 - 1)
    \o <<Op("OP_FROMALTSTACK"), Op("OP_DUP"), Op("OP_NEGATE")>>
    \o Repeat(<<Op("OP_FROMALTSTACK"), Op("OP_TUCK"), Op("OP_SUB")>>, N0 - 1)
    \o <<PushInt(D * N0), Op("OP_ADD"), PushInt(N0 + 1), Op("OP_ROLL"),
         Op("OP_EQUALVERIFY")>>

checksig_verify_script(pk) ==
    Flatten([j \in 1..N |-> DigitVerify(pk[j])]) \o ChecksumVerify

(***************************************************************************)
(* bitcoin-splitter: split_into_shards and the intermediate states.        *)
(***************************************************************************)

\* Maximum size of a shard in bytes.
MAX_SCRIPT_SIZE == 50000

\* The two instruction classes that split_into_shards counts.
IsOpenInstr(ins) == ins.op \in {"OP_IF", "OP_NOTIF"}
IsCloseInstr(ins) == ins.op = "OP_ENDIF"

\* current_shard_size after the instruction was pushed to the last shard:
\* a position modulo chunk_size for ByInstructions, the byte length of the
\* last shard for ByBytes.
CurrentShardSize(type, id, chunk, shard) ==
    IF type = "ByInstructions" THEN (id % chunk) + 1 ELSE ScriptLen(shard)

\* The shard list after instruction number id (0-based) was processed.
PushInstruction(shs, instruction) ==
    [shs EXCEPT ![Len(shs)] = Append(@, instruction)]

\* A closing step that opens the new shard on the list as it was before the push.
SealShardDroppingInstruction(shs, pushed) == Append(shs, <<>>)

\* A new empty shard is opened after the one the instruction went to.
SealShard(shs, pushed) == Append(pushed, <<>>)

\* A closing condition that looks at the size alone.
ShardIsFullIgnoringConditionals(current_shard_size, chunk, ifs, endifs) ==
    current_shard_size >= chunk

\* The condition under which the current shard is closed.
ShardIsFull(current_shard_size, chunk, ifs, endifs) ==
    current_shard_size >= chunk /\ ifs = endifs

\* A from_input_script that keeps no stacks of a run that did not succeed.
from_input_script_of_success_only(inp, scr) ==
    LET r == execute_script(inp \o scr)
    IN  IF r.success THEN [stack |-> r.main_stack, altstack |-> r.alt_stack]
        ELSE [stack |-> <<>>, altstack |-> <<>>]

\* IntermediateState::from_input_script: run input followed by script and
\* keep both stacks, whatever the outcome of the run.
from_input_script(inp, scr) ==
    LET r == execute_script(inp \o scr)
    IN  [stack |-> r.main_stack, altstack |-> r.alt_stack]

\* stack_to_script: every element is pushed as the bytes it holds.
stack_to_script(stack) == [i \in 1..Len(stack) |-> PushBytes(stack[i])]

\* An inject script that moves the altstack items over top element first.
inject_script_ascending(state) ==
    stack_to_script(state.stack) \o stack_to_script(state.altstack)
    \o Flatten([j \in 1..Len(state.altstack) |->
           <<PushInt(j - 1), Op("OP_ROLL"), Op("OP_TOALTSTACK")>>])

\* IntermediateState::inject_script: both stacks are pushed on the main
\* stack, then the altstack part is moved over, bottom element first.
inject_script(state) ==
    stack_to_script(state.stack) \o stack_to_script(state.altstack)
    \o Flatten([j \in 1..Len(state.altstack) |->
           <<PushInt(Len(state.altstack) - j), Op("OP_ROLL"), Op("OP_TOALTSTACK")>>])

\* A replay that restores the main stack only.
from_intermediate_result_mainstack_only(state, scr) ==
    from_input_script(stack_to_script(state.stack), scr)

\* IntermediateState::from_intermediate_result.
from_intermediate_result(state, scr) ==
    from_input_script(inject_script(state), scr)

(***************************************************************************)
(* core: signed intermediate states and the disprove script.               *)
(***************************************************************************)

\* An OP_LONGNOTEQUAL whose bits are combined with OP_BOOLAND.
OP_LONGNOTEQUAL_all_differ(l) ==
    IF l = 0 THEN <<PushInt(0)>>
    ELSE Flatten([i \in 1..l |->
             <<PushInt(l - i + 1), Op("OP_ROLL"), Op("OP_EQUAL"), Op("OP_NOT"),
               Op("OP_TOALTSTACK")>>])
         \o <<Op("OP_FROMALTSTACK")>>
         \o Repeat(<<Op("OP_FROMALTSTACK"), Op("OP_BOOLAND")>>, l - 1)

\* OP_LONGNOTEQUAL(length): one bit, "the two runs of `length` items on top
\* of the stack differ".
OP_LONGNOTEQUAL(length) ==
    IF length = 0 THEN <<PushInt(0)>>
    ELSE Flatten([i \in 1..length |->
             <<PushInt(length - i + 1), Op("OP_ROLL"), Op("OP_EQUAL"), Op("OP_NOT"),
               Op("OP_TOALTSTACK")>>])
         \o <<Op("OP_FROMALTSTACK")>>
         \o Repeat(<<Op("OP_FROMALTSTACK"), Op("OP_BOOLOR")>>, length - 1)

\* The u32 that to_bytes followed by bytes_to_u32_array gives for one stack
\* item: the item's bytes, zero-padded to four, read as a little-endian u32.
\* A negative number is stored by the VM either as a number or as the bytes
\* of its sign-magnitude encoding, and is serialised accordingly (twos says
\* which); the first form has its top bit set, as has every 4-byte
\* negative.  The result is -1 for a u32 above 2^31 - 1 and -2 for an item
\* of more than 4 bytes, which serialize_to_bytes refuses.
bytes_to_u32_array(x, twos) ==
    IF ItemLen(x) > 4 THEN -2
    ELSE IF x.v >= 0 THEN x.v
    ELSE IF twos \/ ScriptNumLen(x.v) = 4 THEN -1
    ELSE (IF ScriptNumLen(x.v) = 1 THEN 128
          ELSE IF ScriptNumLen(x.v) = 2 THEN 32768 ELSE 8388608) + Abs(x.v)

stack_as_u32(stack, twos) == [i \in 1..Len(stack) |-> bytes_to_u32_array(stack[i], twos)]

\* SignedIntermediateState::sign completes: every item serialises and no
\* u32 exceeds MAX_STACK_ELEMENT_VALUE.
SignCompletes(state, twos) ==
    /\ \A i \in 1..Len(state.stack) : bytes_to_u32_array(state.stack[i], twos) >= 0
    /\ \A i \in 1..Len(state.altstack) : bytes_to_u32_array(state.altstack[i], twos) >= 0

\* SignedStackElement::sign with the entropy the generator was seeded from;
\* the encoding, the keys and the signature are functions of the two.
SignedStackElement(stack_element, entropy) ==
    [stack_element |-> stack_element, entropy |-> entropy]
ElementPublicKey(e) == public_key(from_seed(e.entropy))
ElementSignature(e) == sign(from_seed(e.entropy), from_u32(e.stack_element))

\* SignedIntermediateState::sign: the stack is signed first, then the
\* altstack, every element with fresh entropy (rng counts the draws made).
SignedIntermediateState(state, twos, rng) ==
    LET st == stack_as_u32(state.stack, twos)
        al == stack_as_u32(state.altstack, twos)
    IN [stack |-> [i \in 1..Len(st) |-> SignedStackElement(st[i], rng + i)],
        altstack |-> [i \in 1..Len(al) |-> SignedStackElement(al[i], rng + Len(st) + i)]]

total_len(signed) == Len(signed.stack) + Len(signed.altstack)

witness_script(signed) ==
    Flatten([i \in 1..Len(signed.stack) |->
        to_script_sig(ElementSignature(signed.stack[i]))])
    \o Flatten([i \in 1..Len(signed.altstack) |->
        to_script_sig(ElementSignature(signed.altstack[Len(signed.altstack) + 1 - i]))])

VerifyElement(e) ==
    checksig_verify_script(ElementPublicKey(e)) \o recovery_script
    \o <<Op("OP_TOALTSTACK")>>

verification_script_toaltstack(signed) ==
    Flatten([i \in 1..Len(signed.altstack) |-> VerifyElement(signed.altstack[i])])
    \o Flatten([i \in 1..Len(signed.stack) |->
        VerifyElement(signed.stack[Len(signed.stack) + 1 - i])])

verification_script_fromaltstack(signed) ==
    Repeat(<<Op("OP_FROMALTSTACK")>>, Len(signed.stack))

verification_script(signed) ==
    verification_script_toaltstack(signed) \o verification_script_fromaltstack(signed)

\* A disprove script that does not join its two booleans.
DisproveScriptWithoutBoolOr(from_signed, to_signed, func) ==
    [script_witness |-> witness_script(from_signed) \o witness_script(to_signed),
     script_pubkey |->
        verification_script_toaltstack(to_signed)
        \o verification_script(from_signed)
        \o func
        \o Repeat(<<Op("OP_FROMALTSTACK")>>, Len(to_signed.altstack))
        \o verification_script_fromaltstack(to_signed)
        \o Repeat(<<PushInt(total_len(to_signed) + Len(to_signed.stack) - 1),
                    Op("OP_ROLL")>>, Len(to_signed.stack))
        \o OP_LONGNOTEQUAL(Len(to_signed.stack))
        \o Repeat(<<Op("OP_FROMALTSTACK")>>, Len(to_signed.altstack))
        \o Repeat(<<PushInt(2 * Len(to_signed.altstack)), Op("OP_ROLL")>>,
                  Len(to_signed.altstack))
        \o OP_LONGNOTEQUAL(Len(to_signed.altstack))]

\* DisproveScript::new, from the two signed states.
DisproveScript(from_signed, to_signed, func) ==
    [script_witness |-> witness_script(from_signed) \o witness_script(to_signed),
     script_pubkey |->
        verification_script_toaltstack(to_signed)
        \o verification_script(from_signed)
        \o func
        \o Repeat(<<Op("OP_FROMALTSTACK")>>, Len(to_signed.altstack))
        \o verification_script_fromaltstack(to_signed)
        \o Repeat(<<PushInt(total_len(to_signed) + Len(to_signed.stack) - 1),
                    Op("OP_ROLL")>>, Len(to_signed.stack))
        \o OP_LONGNOTEQUAL(Len(to_signed.stack))
        \o Repeat(<<Op("OP_FROMALTSTACK")>>, Len(to_signed.altstack))
        \o Repeat(<<PushInt(2 * Len(to_signed.altstack)), Op("OP_ROLL")>>,
                  Len(to_signed.altstack))
        \o OP_LONGNOTEQUAL(Len(to_signed.altstack))
        \o <<Op("OP_BOOLOR")>>]

\* A witness_elements that keeps the zero bytes of num.to_le_bytes().
witness_elements_unfiltered(d) ==
    [i \in 1..Len(d.script_witness) |->
        LET ins == d.script_witness[i]
        IN  IF ins.op = "PUSHBYTES" \/ (ins.op = "PUSHINT" /\ ins.arg.v \notin -1..16)
                \/ (ins.op = "PUSHINT" /\ ins.arg.v = 0)
            THEN ins.arg
            ELSE IF ins.op = "PUSHINT" THEN Raw(ins.arg.v, 3)
            ELSE [k |-> "unreachable", v |-> 0, c |-> 0]]

\* DisproveScript::witness_elements: the bytes of every push of
\* script_witness.  script! emits a number outside -1..16 and the number 0
\* as data pushes (Instruction::PushBytes); OP_1NEGATE and OP_1..OP_16 are
\* opcodes of class PushNum(num), whose element is num.to_le_bytes() without
\* its zero bytes, read here as the stack item these bytes are.  Any other
\* opcode is unreachable!().
witness_elements(d) ==
    [i \in 1..Len(d.script_witness) |->
        LET ins == d.script_witness[i]
            num == ins.arg.v
            le_bytes == IF num >= 0
                        THEN <<num % 256, (num \div 256) % 256,
                               (num \div 65536) % 256, num \div 16777216>>
                        ELSE <<255, 255, 255, 255>>
            buf == SelectSeq(le_bytes, LAMBDA b : b # 0)
            last == IF buf = <<>> THEN 0 ELSE buf[Len(buf)]
            magnitude ==
                IF buf = <<>> THEN 0
                ELSE SumSeq([j \in 1..Len(buf) |->
                         (IF j = Len(buf) THEN buf[j] % 128 ELSE buf[j])
                         * (IF j = 1 THEN 1 ELSE IF j = 2 THEN 256
                            ELSE IF j = 3 THEN 65536 ELSE 16777216)])
        IN  IF ins.op = "PUSHBYTES" \/ (ins.op = "PUSHINT" /\ num \notin -1..16)
                \/ (ins.op = "PUSHINT" /\ num = 0)
            THEN ins.arg
            ELSE IF ins.op = "PUSHINT"
            THEN (IF last % 128 = 0 THEN Raw(magnitude, 1)
                  ELSE IF last >= 128 THEN Num(-magnitude) ELSE Num(magnitude))
            ELSE [k |-> "unreachable", v |-> 0, c |-> 0]]

(***************************************************************************)
(* State.  One set of variables serves the four components; a behaviour    *)
(* exercises one component and leaves the variables of the others at       *)
(* their idle values.                                                      *)
(*   pc                  position of the running operation                 *)
(*   script, input, split_type, chunk_size   arguments of the splitter     *)
(*   instruction_id, shards, if_count, endif_count   locals of             *)
(*                       split_into_shards                                 *)
(*   intermediate_states the states naive_split collected                  *)
(*   resultant_split, resultant_complexity   locals of fuzzy_split         *)
(*   split_a, split_b    two SplitResults                                  *)
(*   measures            their max_adjacent_states_size and                *)
(*                       complexity_index                                  *)
(*   z                   an IntermediateState handed to inject_script      *)
(*   secret_key, msg, signature   a Winternitz key (its seed), a Message   *)
(*                       and a Signature                                   *)
(*   word, shifted, buf, filled, digit_sum   the argument of               *)
(*                       Message::from_u32 and its locals msg, buf, i and  *)
(*                       sum (digit_sum is the sum as a number; the u8     *)
(*                       holds it modulo 256)                              *)
(*   recovered           what Message::into_u32 returned                   *)
(*   tampered            whether the signature was altered after signing   *)
(*   verified            what PublicKey::verify returned                   *)
(*   from, to, function  arguments of DisproveScript::new                  *)
(*   disprove            the DisproveScript built                          *)
(*   rng                 number of entropy draws made so far               *)
(*   disprove_scripts    the DisproveScripts form_disprove_scripts or      *)
(*                       form_disprove_scripts_distorted returned          *)
(*   distorted_shard_id  the index the latter returned (-1: none)          *)
(*   successes           for each of these scripts, whether the run of     *)
(*                       its witness and script_pubkey ended in success    *)
(*   result              the ExecuteInfo of the last execute_script        *)
(***************************************************************************)
VARIABLES pc, script, input, split_type, chunk_size, instruction_id, shards,
          if_count, endif_count, intermediate_states, z, secret_key, msg,
          signature, tampered, verified, from, to, function, disprove, rng, result,
          word, shifted, buf, filled, digit_sum, recovered,
          disprove_scripts, distorted_shard_id, successes,
          resultant_split, resultant_complexity, split_a, split_b, measures,
          length, chunked_public_key,
          operator_pubkey, payout_locktime, taptree, payout_tx, disprove_txs,
          height, assert_height, spent_by

complexityVars == <<resultant_split, resultant_complexity, split_a, split_b, measures>>
splitVars == <<script, input, split_type, chunk_size, instruction_id, shards,
               if_count, endif_count, intermediate_states, complexityVars>>
partitionVars == <<word, shifted, buf, filled, digit_sum, recovered>>
wintVars == <<secret_key, msg, signature, tampered, verified, partitionVars>>
batchVars == <<disprove_scripts, distorted_shard_id, successes>>
disproveVars == <<from, to, function, disprove, rng, batchVars>>
assertVars == <<operator_pubkey, payout_locktime, taptree, payout_tx, disprove_txs,
                height, assert_height, spent_by>>
coreVars == <<length, chunked_public_key, assertVars>>
vars == <<pc, splitVars, z, wintVars, disproveVars, result, coreVars>>

NoState == [stack |-> <<>>, altstack |-> <<>>]
NoResult == execute_script(<<>>)
NoDisprove == [script_witness |-> <<>>, script_pubkey |-> <<>>]
NoSplit == [shards |-> <<>>, intermediate_states |-> <<>>]
NoComplexity ==
    /\ resultant_split = NoSplit /\ resultant_complexity = 0
    /\ split_a = NoSplit /\ split_b = NoSplit /\ measures = <<>>

IdleSplit ==
    /\ script = <<>> /\ input = <<>> /\ split_type = "ByInstructions"
    /\ chunk_size = 1 /\ instruction_id = 0 /\ shards = <<>>
    /\ if_count = 0 /\ endif_count = 0 /\ intermediate_states = <<>>
    /\ NoComplexity
IdleWint ==
    /\ secret_key = 0 /\ msg = <<>> /\ signature = <<>>
    /\ tampered = FALSE /\ verified = FALSE
    /\ word = 0 /\ shifted = 0 /\ buf = <<>> /\ filled = 0 /\ digit_sum = 0
    /\ recovered = 0
IdleDisprove ==
    /\ from = NoState /\ to = NoState /\ function = <<>>
    /\ disprove = NoDisprove /\ rng = 0
    /\ disprove_scripts = <<>> /\ distorted_shard_id = -1 /\ successes = <<>>
IdleCore ==
    /\ length = 0 /\ chunked_public_key = <<>>
    /\ operator_pubkey = 0 /\ payout_locktime = 0 /\ taptree = <<>>
    /\ payout_tx = <<>> /\ disprove_txs = <<>>
    /\ height = 0 /\ assert_height = -1 /\ spent_by = "nobody"

\* All sequences over S of length at most n.
SeqsUpTo(S, n) == UNION {[1..k -> S] : k \in 0..n}

(***************************************************************************)
(* split_into_shards, one loop iteration per step.                         *)
(***************************************************************************)
MaxScriptLen == 4
MaxChunk == 3
BigPush == 30000

SplitTypes == {"ByInstructions", "ByBytes"}
SplitAlphabet ==
    {PushInt(1), Op("OP_IF"), Op("OP_NOTIF"), Op("OP_ELSE"), Op("OP_ENDIF"),
     PushBytes(Blob(BigPush))}

\* The state on entry to split_into_shards.
EnterSplit ==
    /\ pc = "split" /\ instruction_id = 0 /\ shards = <<<<>>>>
    /\ if_count = 0 /\ endif_count = 0 /\ intermediate_states = <<>>
    /\ NoComplexity

InitSplit ==
    /\ script \in SeqsUpTo(SplitAlphabet, MaxScriptLen)
    /\ split_type \in SplitTypes
    /\ chunk_size \in 1..MaxChunk
    /\ input = <<>>
    /\ EnterSplit
    /\ z = NoState /\ IdleWint /\ IdleDisprove /\ result = NoResult
    /\ IdleCore

\* A loop body that forgets to reset endif_count when it seals a shard.
SplitStepResettingIfCountOnly ==
    /\ pc = "split"
    /\ instruction_id < Len(script)
    /\ LET instruction == script[instruction_id + 1]
           pushed == PushInstruction(shards, instruction)
           current_shard_size ==
               CurrentShardSize(split_type, instruction_id, chunk_size,
                                pushed[Len(pushed)])
           ifs == if_count + (IF IsOpenInstr(instruction) THEN 1 ELSE 0)
           endifs == endif_count + (IF IsCloseInstr(instruction) THEN 1 ELSE 0)
           seal == ShardIsFull(current_shard_size, chunk_size, ifs, endifs)
       IN /\ shards' = IF seal THEN SealShard(shards, pushed) ELSE pushed
          /\ if_count' = IF seal THEN 0 ELSE ifs
          /\ endif_count' = endifs
          /\ pc' = IF current_shard_size <= MAX_SCRIPT_SIZE THEN "split" ELSE "panic"
    /\ instruction_id' = instruction_id + 1
    /\ UNCHANGED <<coreVars, complexityVars,
                   script, input, split_type, chunk_size, intermediate_states, z,
                   wintVars, disproveVars, result>>

\* The body of the loop for instruction number instruction_id; the failed
\* assertion ends the call.
SplitStep ==
    /\ pc = "split"
    /\ instruction_id < Len(script)
    /\ LET instruction == script[instruction_id + 1]
           pushed == PushInstruction(shards, instruction)
           current_shard_size ==
               CurrentShardSize(split_type, instruction_id, chunk_size,
                                pushed[Len(pushed)])
           ifs == if_count + (IF IsOpenInstr(instruction) THEN 1 ELSE 0)
           endifs == endif_count + (IF IsCloseInstr(instruction) THEN 1 ELSE 0)
           seal == ShardIsFull(current_shard_size, chunk_size, ifs, endifs)
       IN /\ shards' = IF seal THEN SealShard(shards, pushed) ELSE pushed
          /\ if_count' = IF seal THEN 0 ELSE ifs
          /\ endif_count' = IF seal THEN 0 ELSE endifs
          /\ pc' = IF current_shard_size <= MAX_SCRIPT_SIZE THEN "split" ELSE "panic"
    /\ instruction_id' = instruction_id + 1
    /\ UNCHANGED <<coreVars, complexityVars,
                   script, input, split_type, chunk_size, intermediate_states, z,
                   wintVars, disproveVars, result>>

\* The loop is over: split_into_shards returns shards.
SplitReturn ==
    /\ pc = "split"
    /\ instruction_id = Len(script)
    /\ pc' = "shards"
    /\ UNCHANGED <<coreVars, splitVars, z, wintVars, disproveVars, result>>

NextSplit == SplitStep \/ SplitReturn
SpecSplit == InitSplit /\ [][NextSplit]_vars

(***************************************************************************)
(* Properties of split_into_shards.                                        *)
(***************************************************************************)

\* C3: when split_into_shards returns, the shards concatenated in order are
\* the instruction sequence of the script it was given: no instruction is
\* lost, duplicated or reordered, in both modes and for every chunk size.
ShardsConcatenateToScript == pc = "shards" => Flatten(shards) = script

\* A ByBytes and a ByInstructions split that returned several non-empty
\* shards.
ShardsConcatenateWitness ==
    /\ pc = "shards" /\ Len(shards) >= 3 /\ Len(script) >= 4
    /\ Len(shards[1]) >= 2 /\ shards[2] # <<>>

CountOpen(s) == Cardinality({i \in 1..Len(s) : IsOpenInstr(s[i])})
CountClose(s) == Cardinality({i \in 1..Len(s) : IsCloseInstr(s[i])})

\* Conditional nesting depth of s after its first n instructions.
Depth(s, n) == CountOpen(SubSeq(s, 1, n)) - CountClose(SubSeq(s, 1, n))

ProperlyNested(s) ==
    /\ \A n \in 0..Len(s) : Depth(s, n) >= 0
    /\ Depth(s, Len(s)) = 0

\* Number of instructions of the script that precede shard i.
ShardStart(i) == Len(Flatten(SubSeq(shards, 1, i - 1)))

\* C4: for a script whose OP_IF/OP_NOTIF/OP_ENDIF are properly nested, every
\* returned shard, the last included, holds as many OP_IF + OP_NOTIF as
\* OP_ENDIF, the nesting depth of the script is zero where each shard
\* starts, and every OP_ELSE or OP_ENDIF that closes a block of the script
\* closes a block opened in its own shard (no block straddles two shards,
\* no shard starts with an OP_ELSE or OP_ENDIF whose opener is elsewhere).
ShardsAreBalanced ==
    (pc = "shards" /\ ProperlyNested(script)) =>
        \A i \in 1..Len(shards) :
            /\ CountOpen(shards[i]) = CountClose(shards[i])
            /\ Depth(script, ShardStart(i)) = 0
            /\ \A p \in 1..Len(shards[i]) :
                  (/\ shards[i][p].op \in {"OP_ELSE", "OP_ENDIF"}
                   /\ Depth(script, ShardStart(i) + p - 1) > 0)
                  => Depth(shards[i], p - 1) > 0

\* A returned split in which a conditional block is longer than chunk_size
\* and the shard was closed late, after the block's OP_ENDIF.
ShardsAreBalancedWitness ==
    /\ pc = "shards" /\ ProperlyNested(script)
    /\ Len(shards) >= 2 /\ chunk_size = 1
    /\ \E i \in 1..Len(shards) :
          /\ Len(shards[i]) >= 3
          /\ IsOpenInstr(shards[i][1])
          /\ shards[i][2].op = "OP_ELSE"
          /\ IsCloseInstr(shards[i][Len(shards[i])])

\* C5 as stated: in both modes, when split_into_shards returns (it did not
\* abort), no shard is longer than MAX_SCRIPT_SIZE bytes.
ReturnedShardsWithinMaxSize ==
    pc = "shards" => \A i \in 1..Len(shards) : ScriptLen(shards[i]) <= MAX_SCRIPT_SIZE

(***************************************************************************)
(* The Winternitz signer: a key signs a message, the signature may be      *)
(* altered on its way, and it is verified off-chain and in the VM.         *)
(***************************************************************************)
MaxKey == 2

\* The messages signed: the extremes of the 31-bit range, the values the
\* repository's tests use, and values around a digit boundary.
SampleU32 == {0, 1, 15, 16, 255, 36984440, 268435455, 803134924, 2147483647}
Messages == {from_u32(m) : m \in SampleU32} \cup {DefaultMessage}

\* The digit positions at which a signature is altered: the first and last
\* message digit and the two checksum digits.
TamperAt == {1, N0, N0 + 1, N}

InitWint ==
    /\ pc = "sign"
    /\ secret_key \in 1..MaxKey
    /\ msg \in Messages
    /\ signature = <<>> /\ tampered = FALSE /\ verified = FALSE
    /\ word = 0 /\ shifted = 0 /\ buf = <<>> /\ filled = 0 /\ digit_sum = 0
    /\ recovered = 0
    /\ IdleSplit /\ z = NoState /\ IdleDisprove /\ result = NoResult
    /\ IdleCore

\* SecretKey::sign.
Sign ==
    /\ pc = "sign"
    /\ signature' = sign(from_seed(secret_key), msg)
    /\ pc' = "signed"
    /\ UNCHANGED <<coreVars, splitVars, z, secret_key, msg, tampered, verified, disproveVars,
                   result, partitionVars>>

\* One pair of the signature is altered: its hash is hashed once more, its
\* digit is replaced by the next digit, or both.
Tamper ==
    /\ pc = "signed" /\ ~tampered
    /\ \E j \in TamperAt, how \in {"hash", "digit", "both"} :
          LET d == signature[j][1]
              h == signature[j][2]
          IN signature' = [signature EXCEPT ![j] =
                 <<IF how = "hash" THEN d ELSE (d + 1) % (D + 1),
                   IF how = "digit" THEN h ELSE Hash160(h)>>]
    /\ tampered' = TRUE
    /\ UNCHANGED <<coreVars, pc, splitVars, z, secret_key, msg, verified, disproveVars, result,
                   partitionVars>>

\* PublicKey::verify, off-chain.
Verify ==
    /\ pc = "signed"
    /\ verified' = verify(public_key(from_seed(secret_key)), msg, signature)
    /\ pc' = "verified"
    /\ UNCHANGED <<coreVars, splitVars, z, secret_key, msg, signature, tampered, disproveVars,
                   result, partitionVars>>

\* The signature is checked in the VM.
Checksig ==
    /\ pc = "verified"
    /\ result' = execute_script(
           to_script_sig(signature)
           \o checksig_verify_script(public_key(from_seed(secret_key))))
    /\ pc' = "checked"
    /\ UNCHANGED <<coreVars, splitVars, z, wintVars, disproveVars>>

\* The signature is checked in the VM and the message is recovered.
Recover ==
    /\ pc = "checked"
    /\ result' = execute_script(
           to_script_sig(signature)
           \o checksig_verify_script(public_key(from_seed(secret_key)))
           \o recovery_script)
    /\ pc' = "recovered"
    /\ UNCHANGED <<coreVars, splitVars, z, wintVars, disproveVars>>

NextWint == Sign \/ Tamper \/ Verify \/ Checksig \/ Recover
SpecWint == InitWint /\ [][NextWint]_vars

\* C8: an untouched signature of Message::from_u32(m), m < 2^31, made by any
\* key, is accepted by PublicKey::verify under that key's public key.
WinternitzRoundTrip ==
    (/\ pc \in {"verified", "checked", "recovered"}
     /\ ~tampered
     /\ \E m \in SampleU32 : msg = from_u32(m))
    => verified

WinternitzRoundTripWitness ==
    /\ pc = "verified" /\ ~tampered /\ verified
    /\ msg = from_u32(2147483647)
    /\ signature[N0][1] = 7

\* C9 as stated: for every key, message and signature, the script made of
\* to_script_sig and checksig_verify_script runs without error exactly when
\* PublicKey::verify accepts.
InVmVerifyAgreesWithOffChain == pc = "checked" => (~result.error <=> verified)

\* C10: for every key and every m < 2^31, the signature of from_u32(m)
\* followed by checksig_verify_script and recovery_script runs without
\* error, leaves the single item m on the main stack and nothing on the
\* altstack, and computes no number outside the 31-bit range.
RecoveryLeavesMessage ==
    \A m \in SampleU32 :
        (pc = "recovered" /\ ~tampered /\ msg = from_u32(m)) =>
            /\ ~result.error
            /\ result.main_stack = <<Num(m)>>
            /\ result.alt_stack = <<>>
            /\ ~result.over
            /\ result.peak <= MaxNumOperand

RecoveryLeavesMessageWitness ==
    /\ pc = "recovered" /\ ~tampered /\ msg = from_u32(2147483647)
    /\ result.main_stack = <<Num(2147483647)>>
    /\ result.peak = 2147483647

(***************************************************************************)
(* A forger holds one signature of from_u32(word) and the public key.  It  *)
(* cannot invert Hash160; what it can put at position j of a signature for *)
(* another message is a later element of chain j.                          *)
(***************************************************************************)
MaxSmallWord == 17

\* The messages signed and forged: the sampled ones and every small one.
ForgeWords == SampleU32 \cup 0..MaxSmallWord

InitForge ==
    /\ pc = "sign"
    /\ secret_key \in 1..MaxKey
    /\ word \in ForgeWords
    /\ msg = from_u32(word)
    /\ signature = <<>> /\ tampered = FALSE /\ verified = FALSE
    /\ shifted = 0 /\ buf = <<>> /\ filled = 0 /\ digit_sum = 0
    /\ recovered = 0
    /\ IdleSplit /\ z = NoState /\ IdleDisprove /\ result = NoResult
    /\ IdleCore

\* The forger turns the signature of from_u32(word) into digit/hash pairs for
\* from_u32(m), m # word.  At every position it walks the published hash
\* forward: as far as the new digit asks ("forward", not at all where the new
\* digit is lower), not at all ("replay"), or up to the public key's chunk
\* ("public_key").
Forge ==
    /\ pc = "signed" /\ ~tampered
    /\ \E m \in ForgeWords \ {word}, effort \in {"forward", "replay", "public_key"} :
          LET target == from_u32(m)
              steps(j) == IF effort = "forward" THEN Max2(target[j] - signature[j][1], 0)
                          ELSE IF effort = "replay" THEN 0
                          ELSE D - signature[j][1]
          IN /\ msg' = target
             /\ signature' = [j \in 1..N |->
                    <<target[j], HashTimes(signature[j][2], steps(j))>>]
    /\ tampered' = TRUE
    /\ UNCHANGED <<coreVars, pc, splitVars, z, secret_key, verified, disproveVars, result,
                   partitionVars>>

SpecForge == InitForge /\ [][Sign \/ Forge \/ Verify \/ Checksig]_vars

\* C27: the encodings of two different messages below 2^31 are incomparable
\* (some digit of the second is lower than the same digit of the first), and
\* digit/hash pairs made for another message from one signature by hashing
\* forward are rejected by PublicKey::verify and by checksig_verify_script.
ForgeryIsRejected ==
    /\ \A m \in ForgeWords \ {word} : \E j \in 1..N : from_u32(m)[j] < from_u32(word)[j]
    /\ tampered => \E j \in 1..N : msg[j] < from_u32(word)[j]
    /\ (tampered /\ pc \in {"verified", "checked"}) => ~verified
    /\ (tampered /\ pc = "checked") => result.error

\* The forger walked every chain it could: message 16 was signed, the pairs
\* are for message 255, whose first two digits are higher and whose last
\* checksum digit is lower (5 against 7); both verifiers have refused them.
ForgeryIsRejectedWitness ==
    /\ pc = "checked" /\ tampered
    /\ word = 16 /\ msg = from_u32(255)
    /\ signature[1] = <<15, HashTimes(from_seed(secret_key)[1], 15)>>
    /\ signature[N] = <<5, HashTimes(from_seed(secret_key)[N], 7)>>
    /\ ~verified /\ result.error

(***************************************************************************)
(* naive_split: split_into_shards, then one intermediate state per shard.  *)
(***************************************************************************)
MaxProgLen == 4

NaiveAlphabet ==
    {PushInt(300), Op("OP_ADD"), Op("OP_TOALTSTACK"), Op("OP_FROMALTSTACK")}
NaiveInputs == {<<>>, <<PushInt(1), PushInt(3)>>}

InitNaive ==
    /\ script \in SeqsUpTo(NaiveAlphabet, MaxProgLen)
    /\ input \in NaiveInputs
    /\ split_type \in SplitTypes
    /\ chunk_size \in 1..MaxChunk
    /\ EnterSplit
    /\ z = NoState /\ IdleWint /\ IdleDisprove /\ result = NoResult
    /\ IdleCore

\* The state after the first shard, run on the input script.
StateFirst ==
    /\ pc = "shards"
    /\ intermediate_states' = <<from_input_script(input, shards[1])>>
    /\ pc' = "states"
    /\ UNCHANGED <<coreVars, complexityVars,
                   script, input, split_type, chunk_size, instruction_id, shards,
                   if_count, endif_count, z, wintVars, disproveVars, result>>

\* The state after the next shard, run on the last state.
StateNext ==
    /\ pc = "states"
    /\ Len(intermediate_states) < Len(shards)
    /\ intermediate_states' = Append(intermediate_states,
           from_intermediate_result(
               intermediate_states[Len(intermediate_states)],
               shards[Len(intermediate_states) + 1]))
    /\ UNCHANGED <<coreVars, pc, complexityVars,
                   script, input, split_type, chunk_size, instruction_id, shards,
                   if_count, endif_count, z, wintVars, disproveVars, result>>

\* naive_split returns the SplitResult.
NaiveReturn ==
    /\ pc = "states"
    /\ Len(intermediate_states) = Len(shards)
    /\ pc' = "split_result"
    /\ UNCHANGED <<coreVars, splitVars, z, wintVars, disproveVars, result>>

NextNaive == SplitStep \/ SplitReturn \/ StateFirst \/ StateNext \/ NaiveReturn
SpecNaive == InitNaive /\ [][NextNaive]_vars

\* Both stacks after a run of scr on the empty VM.
StacksAfter(scr) ==
    LET r == execute_script(scr)
    IN  [stack |-> r.main_stack, altstack |-> r.alt_stack]

\* C6: a SplitResult returned by naive_split has one state per shard; the
\* first state is the pair of stacks after input followed by shards[0], and
\* every later state is the pair of stacks after the inject script of the
\* state before it followed by its shard.
NaiveSplitInvariant ==
    pc = "split_result" =>
        /\ Len(shards) = Len(intermediate_states)
        /\ intermediate_states[1] = StacksAfter(input \o shards[1])
        /\ \A i \in 2..Len(shards) :
              intermediate_states[i] =
                  StacksAfter(inject_script(intermediate_states[i - 1]) \o shards[i])

\* A result of three shards or more whose second state carries an altstack
\* into the third shard.
NaiveSplitWitness ==
    /\ pc = "split_result" /\ Len(shards) >= 3
    /\ intermediate_states[2].altstack # <<>>
    /\ intermediate_states[2].stack # <<>>
    /\ intermediate_states[3] # intermediate_states[2]

\* The run that makes state i of the SplitResult: the input followed by
\* the first shard, or the inject script of state i - 1 followed by shard i.
RunOfShard(i) ==
    execute_script((IF i = 1 THEN input ELSE inject_script(intermediate_states[i - 1]))
                   \o shards[i])

MaxInject == 2

\* Stack items of a state: numbers of every length, a number that is not
\* minimally encoded, a hash and a string of the largest size the VM
\* lets on the stack.
InjectItems ==
    {Num(0), Num(1), Num(-1), Num(2147483647), Raw(1, 1), HashOf(1, 0),
     Blob(MAX_SCRIPT_ELEMENT_SIZE)}

InitInject ==
    /\ pc = "inject"
    /\ z \in [stack : SeqsUpTo(InjectItems, MaxInject),
              altstack : SeqsUpTo(InjectItems, MaxInject)]
    /\ IdleSplit /\ IdleWint /\ IdleDisprove /\ result = NoResult
    /\ IdleCore

\* IntermediateState::inject_script.
Inject ==
    /\ pc = "inject"
    /\ script' = inject_script(z)
    /\ pc' = "injected"
    /\ UNCHANGED <<coreVars, complexityVars, input, split_type, chunk_size,
                   instruction_id, shards, if_count,
                   endif_count, intermediate_states, z, wintVars, disproveVars, result>>

\* IntermediateState::from_inject_script: the inject script is executed on
\* the empty VM.
Restore ==
    /\ pc = "injected"
    /\ result' = execute_script(script)
    /\ pc' = "restored"
    /\ UNCHANGED <<coreVars, splitVars, z, wintVars, disproveVars>>

NextInject == Inject \/ Restore
SpecInject == InitInject /\ [][NextInject]_vars

\* C7: for every state z, with any number of items on either stack, the
\* run of z.inject_script() on the empty VM ends without error with z.stack
\* on the main stack and z.altstack on the altstack, in the same order.
InjectRestoresState ==
    pc = "restored" =>
        /\ ~result.error
        /\ result.main_stack = z.stack
        /\ result.alt_stack = z.altstack

InjectRestoresStateWitness ==
    /\ pc = "restored"
    /\ Len(z.stack) >= 1 /\ Len(z.altstack) >= 2
    /\ z.altstack[1] # z.altstack[2]
    /\ result.alt_stack = z.altstack

(***************************************************************************)
(* DisproveScript::new on a transition (from, function, to), and the run   *)
(* of its witness followed by its script_pubkey.                           *)
(***************************************************************************)
MaxStateItems == 2

\* Items of the `from` state: a number, a number that is not minimally
\* encoded, and a negative number.
DisproveItems == {Num(2), Raw(1, 1), Num(-1)}

Functions ==
    {<<Op("OP_ADD")>>, <<Op("OP_1ADD")>>, <<PushInt(1), Op("OP_EQUAL")>>,
     <<Op("OP_TOALTSTACK")>>, <<Op("OP_FROMALTSTACK")>>, <<PushInt(1)>>}

FromStates ==
    {st \in [stack : SeqsUpTo(DisproveItems, MaxStateItems),
             altstack : SeqsUpTo(DisproveItems, MaxStateItems)] :
        Len(st.stack) + Len(st.altstack) <= MaxStateItems}

\* The state that func makes of the state `state`.
Transition(state, func) == StacksAfter(inject_script(state) \o func)
TransitionCompletes(state, func) == ~execute_script(inject_script(state) \o func).error

\* The claimed `to` states: the state func makes of `from`, that state with
\* the last mainstack item replaced by zero (the distortion of
\* form_disprove_scripts_distorted), and that state with an item more or
\* less on one of its stacks.
ToStates(h) ==
    {h, [h EXCEPT !.stack = Append(@, Num(1))],
        [h EXCEPT !.altstack = Append(@, Num(1))]}
    \cup (IF h.stack = <<>> THEN {}
          ELSE {[h EXCEPT !.stack = Append(PopN(@, 1), Num(0))],
                [h EXCEPT !.stack = PopN(@, 1)]})

InitDisprove ==
    /\ pc = "new"
    /\ from \in FromStates
    /\ function \in Functions
    /\ to \in ToStates(Transition(from, function))
    /\ disprove = NoDisprove /\ rng = 0
    /\ disprove_scripts = <<>> /\ distorted_shard_id = -1 /\ successes = <<>>
    /\ IdleSplit /\ z = NoState /\ IdleWint /\ result = NoResult
    /\ IdleCore

\* DisproveScript::new: both states are signed (either may be refused) and
\* the two scripts are built.
DisproveNew ==
    /\ pc = "new"
    /\ \E twos_from, twos_to \in BOOLEAN :
          IF SignCompletes(from, twos_from) /\ SignCompletes(to, twos_to)
          THEN /\ disprove' = DisproveScript(
                      SignedIntermediateState(from, twos_from, rng),
                      SignedIntermediateState(to, twos_to,
                          rng + Len(from.stack) + Len(from.altstack)),
                      function)
               /\ rng' = rng + Len(from.stack) + Len(from.altstack)
                             + Len(to.stack) + Len(to.altstack)
               /\ pc' = "built"
          ELSE /\ pc' = "panic"
               /\ UNCHANGED <<disprove, rng>>
    /\ UNCHANGED <<coreVars, splitVars, z, wintVars, from, to, function, result, batchVars>>

\* The witness followed by the script_pubkey is executed.
DisproveExecute ==
    /\ pc = "built"
    /\ result' = execute_script(disprove.script_witness \o disprove.script_pubkey)
    /\ pc' = "executed"
    /\ UNCHANGED <<coreVars, splitVars, z, wintVars, disproveVars>>

\* The `from` state is signed and its witness_script followed by its
\* verification_script is executed (test_stack_sign_and_verify).
SignAndVerify ==
    /\ pc = "new"
    /\ \E twos \in BOOLEAN :
          IF SignCompletes(from, twos)
          THEN LET signed == SignedIntermediateState(from, twos, rng)
               IN /\ result' = execute_script(
                         witness_script(signed) \o verification_script(signed))
                  /\ rng' = rng + Len(from.stack) + Len(from.altstack)
                  /\ pc' = "state_verified"
          ELSE /\ pc' = "panic"
               /\ UNCHANGED <<result, rng>>
    /\ UNCHANGED <<coreVars, splitVars, z, wintVars, from, to, function, disprove, batchVars>>

NextDisprove == DisproveNew \/ DisproveExecute \/ SignAndVerify
SpecDisprove == InitDisprove /\ [][NextDisprove]_vars

\* C1 as stated: when both states were signed and function makes exactly
\* `to` of `from`, the run of the disprove script does not succeed.
DisproveSoundness ==
    (pc = "executed" /\ to = Transition(from, function)) => ~result.success

\* C12 as stated: when the state was signed, the run of its witness_script
\* followed by its verification_script ends without error, with the items
\* of the state's stack on the main stack and the items of its altstack on
\* the altstack, in the same order and with the same values.
VerificationLeavesState ==
    pc = "state_verified" =>
        /\ ~result.error
        /\ result.main_stack = from.stack
        /\ result.alt_stack = from.altstack

\* C2 as stated: when both states were signed, function runs to completion
\* on `from` and what it makes differs from `to` in some item or in the
\* number of items, the run of the disprove script succeeds.
DisproveCompleteness ==
    (/\ pc = "executed"
     /\ TransitionCompletes(from, function)
     /\ to # Transition(from, function))
    => result.success

\* The items of a state are numbers the signer takes as they are.
PlainState(state) ==
    /\ \A i \in 1..Len(state.stack) : state.stack[i].k = "num" /\ state.stack[i].v >= 0
    /\ \A i \in 1..Len(state.altstack) :
          state.altstack[i].k = "num" /\ state.altstack[i].v >= 0

\* C28: when `to` has as many items on each stack as function makes of
\* `from`, a run of script_witness followed by script_pubkey that completes
\* ends with one item on the main stack, a boolean, and an empty altstack;
\* for states of plain numbers the boolean says whether `to` differs from
\* what function makes of `from`.
DisproveLeavesOneBoolean ==
    (/\ pc = "executed" /\ ~result.error
     /\ Len(to.stack) = Len(Transition(from, function).stack)
     /\ Len(to.altstack) = Len(Transition(from, function).altstack))
    => /\ Len(result.main_stack) = 1
       /\ result.main_stack[1] \in {Num(0), Num(1)}
       /\ result.alt_stack = <<>>
       /\ (PlainState(from) /\ PlainState(to)) =>
              (result.main_stack[1] = Num(1) <=> to # Transition(from, function))

\* A `to` state with an item on each stack, the mainstack item distorted:
\* the run ends with the single item 1 and nothing on the altstack.
DisproveLeavesOneBooleanWitness ==
    /\ pc = "executed" /\ ~result.error
    /\ from = [stack |-> <<Num(2), Num(2)>>, altstack |-> <<>>]
    /\ function = <<Op("OP_TOALTSTACK")>>
    /\ to = [stack |-> <<Num(0)>>, altstack |-> <<Num(2)>>]
    /\ result.main_stack = <<Num(1)>> /\ result.alt_stack = <<>>

(***************************************************************************)
(* Message::from_u32, one loop iteration per step, and Message::into_u32.  *)
(***************************************************************************)
\* The u32 arguments tried; the debug_assert admits those below 2^V.
InitPartition ==
    /\ pc = "from_u32"
    /\ word \in SampleU32 \cup {7, 240, 4095, 65535, 305419896, 1879048192, 2147483632}
    /\ shifted = word
    /\ buf = [j \in 1..N |-> 0]
    /\ filled = 0 /\ digit_sum = 0 /\ recovered = 0
    /\ secret_key = 0 /\ msg = <<>> /\ signature = <<>>
    /\ tampered = FALSE /\ verified = FALSE
    /\ IdleSplit /\ z = NoState /\ IdleDisprove /\ result = NoResult
    /\ IdleCore

\* A loop body that shifts by a byte instead of four bits.
PartitionStepShiftingByte ==
    /\ pc = "from_u32"
    /\ filled < N0
    /\ buf' = [buf EXCEPT ![filled + 1] = shifted % 16]
    /\ shifted' = shifted \div 256
    /\ digit_sum' = digit_sum + (shifted % 16)
    /\ filled' = filled + 1
    /\ UNCHANGED <<coreVars, pc, splitVars, z, secret_key, msg, signature, tampered, verified,
                   word, recovered, disproveVars, result>>

\* The body of the loop: buf[i] = msg & MASK; msg >>= 4; sum += buf[i].
PartitionStep ==
    /\ pc = "from_u32"
    /\ filled < N0
    /\ buf' = [buf EXCEPT ![filled + 1] = shifted % 16]
    /\ shifted' = shifted \div 16
    /\ digit_sum' = digit_sum + (shifted % 16)
    /\ filled' = filled + 1
    /\ UNCHANGED <<coreVars, pc, splitVars, z, secret_key, msg, signature, tampered, verified,
                   word, recovered, disproveVars, result>>

\* After the loop: the checksum, in u8 arithmetic, fills the last two digits
\* and the Message is returned.
PartitionReturn ==
    /\ pc = "from_u32"
    /\ filled = N0
    /\ LET checksum == (((D * N0) % 256) - (digit_sum % 256)) % 256
       IN buf' = [buf EXCEPT ![N0 + 1] = checksum % 16, ![N0 + 2] = checksum \div 16]
    /\ msg' = buf'
    /\ pc' = "message"
    /\ UNCHANGED <<coreVars, splitVars, z, secret_key, signature, tampered, verified, word,
                   shifted, filled, digit_sum, recovered, disproveVars, result>>

\* Message::into_u32 of the Message returned.
IntoU32 ==
    /\ pc = "message"
    /\ recovered' = into_u32(msg)
    /\ pc' = "into_u32"
    /\ UNCHANGED <<coreVars, splitVars, z, secret_key, msg, signature, tampered, verified, word,
                   shifted, buf, filled, digit_sum, disproveVars, result>>

SpecPartition == InitPartition /\ [][PartitionStep \/ PartitionReturn \/ IntoU32]_vars

\* C11: for m < 2^31 the sum of the digits never leaves the u8 range and
\* never exceeds D * N0 (no overflow, no underflow of the checksum); the
\* Message returned has the digits (m >> 4j) & 0xF for j = 0..7, then
\* c & 0xF and c >> 4 for c = D * N0 - sum of those digits, all within
\* 0..15; and into_u32 of it is m.
MessagePartition ==
    LET d(j) == (word \div Pow16(j)) % 16
        c == D * N0 - SumSeq([j \in 1..N0 |-> d(j - 1)])
    IN /\ digit_sum <= 255 /\ D * N0 <= 255 /\ digit_sum <= D * N0
       /\ pc \in {"message", "into_u32"} =>
             /\ \A j \in 1..N0 : msg[j] = d(j - 1)
             /\ msg[N0 + 1] = c % 16 /\ msg[N0 + 2] = c \div 16
             /\ \A j \in 1..N : msg[j] \in 0..15
       /\ pc = "into_u32" => recovered = word

MessagePartitionWitness ==
    /\ pc = "into_u32" /\ word = 803134924 /\ recovered = 803134924
    /\ msg = <<12, 12, 13, 13, 14, 13, 15, 2, 10, 1>>

(***************************************************************************)
(* form_disprove_scripts and form_disprove_scripts_distorted: the script   *)
(* is split by default_split, one DisproveScript is built per shard, and   *)
(* every one of them is executed.                                          *)
(***************************************************************************)
MaxBatchLen == 2
\* DEFAULT_SCRIPT_SIZE (7000 instructions) on the scale of the scripts tried.
DefaultChunk == 1

\* The DisproveScripts of a SplitResult: script i takes the state before
\* shard i (the state the input alone makes, for the first), the state after
\* it, and the shard.  Every element is signed with entropy of its own.
DisproveBatch(inp, split_shards, states, twos) ==
    [i \in 1..Len(split_shards) |->
        LET from_state == IF i = 1 THEN StacksAfter(inp) ELSE states[i - 1]
        IN DisproveScript(
               SignedIntermediateState(from_state, twos, 64 * i),
               SignedIntermediateState(states[i], twos, 64 * i + 32),
               split_shards[i])]

\* SignedIntermediateState::sign completes for every state of the batch.
BatchSigns(inp, states, twos) ==
    /\ SignCompletes(StacksAfter(inp), twos)
    /\ \A i \in 1..Len(states) : SignCompletes(states[i], twos)

InitBatch ==
    /\ script \in SeqsUpTo({PushInt(0), Op("OP_NEGATE"), Op("OP_1ADD"), Op("OP_ADD"),
                            Op("OP_DROP")}, MaxBatchLen)
    /\ input \in {<<>>, <<PushInt(1)>>, <<PushInt(2), PushInt(3)>>}
    /\ split_type = "ByInstructions"
    /\ chunk_size = DefaultChunk
    /\ EnterSplit
    /\ z = NoState /\ IdleWint /\ IdleDisprove /\ result = NoResult
    /\ IdleCore

\* form_disprove_scripts, after default_split returned.
FormDisproveScripts ==
    /\ pc = "split_result"
    /\ \E twos \in BOOLEAN :
          IF BatchSigns(input, intermediate_states, twos)
          THEN /\ disprove_scripts' =
                      DisproveBatch(input, shards, intermediate_states, twos)
               /\ pc' = "disprove_scripts"
          ELSE /\ pc' = "sign_panic"
               /\ UNCHANGED disprove_scripts
    /\ UNCHANGED <<coreVars, splitVars, z, wintVars, from, to, function, disprove, rng,
                   distorted_shard_id, successes, result>>

\* form_disprove_scripts_distorted, after default_split returned: the last
\* mainstack item of the state of a random shard is replaced by OP_0.
FormDisproveScriptsDistorted ==
    /\ pc = "split_result"
    /\ \E id \in 0..(Len(shards) - 1), twos \in BOOLEAN :
          LET current_stack == intermediate_states[id + 1].stack
              distorted ==
                  [intermediate_states EXCEPT ![id + 1].stack =
                      execute_script(stack_to_script(current_stack)
                          \o <<Op("OP_DROP"), PushInt(0)>>).main_stack]
          IN /\ distorted_shard_id' = id
             /\ IF current_stack = <<>>
                THEN /\ pc' = "panic"
                     /\ UNCHANGED <<intermediate_states, disprove_scripts>>
                ELSE IF ~BatchSigns(input, distorted, twos)
                THEN /\ pc' = "sign_panic"
                     /\ intermediate_states' = distorted
                     /\ UNCHANGED disprove_scripts
                ELSE /\ intermediate_states' = distorted
                     /\ disprove_scripts' =
                            DisproveBatch(input, shards, distorted, twos)
                     /\ pc' = "disprove_scripts"
    /\ UNCHANGED <<coreVars, complexityVars,
                   script, input, split_type, chunk_size, instruction_id, shards,
                   if_count, endif_count, z, wintVars, from, to, function, disprove,
                   rng, successes, result>>

\* Every script of the batch is executed: witness, then script_pubkey.
ExecuteBatch ==
    /\ pc = "disprove_scripts"
    /\ successes' = [i \in 1..Len(disprove_scripts) |->
           execute_script(disprove_scripts[i].script_witness
                          \o disprove_scripts[i].script_pubkey).success]
    /\ pc' = "batch_executed"
    /\ UNCHANGED <<coreVars, splitVars, z, wintVars, from, to, function, disprove, rng,
                   disprove_scripts, distorted_shard_id, result>>

SpecBatch ==
    InitBatch /\ [][SplitStep \/ SplitReturn \/ StateFirst \/ StateNext \/ NaiveReturn
                    \/ FormDisproveScripts \/ FormDisproveScriptsDistorted
                    \/ ExecuteBatch]_vars

\* C13 as stated: when the input and every shard replay without error,
\* form_disprove_scripts returns one DisproveScript per shard and the run of
\* none of them succeeds.
HonestBatchNotDisproved ==
    LET ShardsReplay ==
            /\ ~execute_script(input).error
            /\ ~execute_script(input \o shards[1]).error
            /\ \A i \in 2..Len(shards) :
                  ~execute_script(inject_script(intermediate_states[i - 1])
                                  \o shards[i]).error
    IN (pc \in {"sign_panic", "disprove_scripts", "batch_executed"}
        /\ distorted_shard_id = -1 /\ ShardsReplay)
       => /\ pc # "sign_panic"
          /\ Len(disprove_scripts) = Len(shards)
          /\ pc = "batch_executed" => \A i \in 1..Len(successes) : ~successes[i]

\* C14 as stated: of the scripts form_disprove_scripts_distorted returns
\* with the index j, the run of script i succeeds exactly when i = j or
\* i = j + 1.
DistortedBatchDisproved ==
    (pc = "batch_executed" /\ distorted_shard_id >= 0)
    => \A i \in 0..(Len(successes) - 1) :
          successes[i + 1] <=> (i = distorted_shard_id \/ i = distorted_shard_id + 1)

\* The public key chunks a script_pubkey hard-codes, in script order: those of
\* the `to` state's elements first (verification_script_toaltstack of `to`),
\* then those of the `from` state's elements.
PublicKeyChunks(scr) ==
    LET IsChunk(ins) == ins.op = "PUSHBYTES" /\ ins.arg.k = "hash"
    IN SelectSeq(scr, IsChunk)

\* C30 as stated: the keys disprove script i hard-codes for its `from` state
\* z_{i-1} are the keys disprove script i-1 hard-codes for its `to` state
\* z_{i-1}.
AdjacentScriptsShareKeys ==
    pc = "disprove_scripts" =>
        \A i \in 2..Len(disprove_scripts) :
            LET chunks_i == PublicKeyChunks(disprove_scripts[i].script_pubkey)
                chunks_before == PublicKeyChunks(disprove_scripts[i - 1].script_pubkey)
                to_i == N * (Len(intermediate_states[i].stack)
                             + Len(intermediate_states[i].altstack))
                to_before == N * (Len(intermediate_states[i - 1].stack)
                                  + Len(intermediate_states[i - 1].altstack))
            IN SubSeq(chunks_i, to_i + 1, Len(chunks_i)) = SubSeq(chunks_before, 1, to_before)

(***************************************************************************)
(* SplitResult: its measures, taken of two results with the same shards.   *)
(***************************************************************************)
STACK_SIZE_INDEX == 1000
MaxShards == 2

\* IntermediateState::size.
size(state) == Len(state.stack) + Len(state.altstack)

\* SplitResult::max_adjacent_states_size.
max_adjacent_states_size(r) ==
    LET states == r.intermediate_states
        sums == {size(states[i]) + size(states[i + 1]) : i \in 1..(Len(states) - 1)}
    IN IF sums = {} THEN 0 ELSE CHOOSE m \in sums : \A x \in sums : x <= m

\* A complexity index that leaves out the state before the shard.
complexity_index_of_current_state(r) ==
    LET cost(i) == ScriptLen(r.shards[i])
                   + size(r.intermediate_states[i]) * STACK_SIZE_INDEX
        costs == {cost(i) : i \in 1..Len(r.intermediate_states)}
    IN IF costs = {} THEN 0 ELSE CHOOSE m \in costs : \A x \in costs : x <= m

\* SplitResult::complexity_index: the loop over i in 0..self.len() that keeps
\* the running maximum; complexity_after[i] is resultant_complexity after
\* i rounds.
complexity_index(r) ==
    LET cost(i) ==
            ScriptLen(r.shards[i])
            + (size(r.intermediate_states[i])
               + (IF i > 1 THEN size(r.intermediate_states[i - 1]) ELSE 0))
              * STACK_SIZE_INDEX
        complexity_after[i \in 0..Len(r.intermediate_states)] ==
            IF i = 0 THEN 0 ELSE Max2(complexity_after[i - 1], cost(i))
    IN complexity_after[Len(r.intermediate_states)]

\* Two SplitResults with the same shards and one state per shard, the empty
\* result included: shards of 0, 1, 603 and 30003 bytes, states of 0, 1 and
\* 2 items.
InitComplexity ==
    /\ pc = "results"
    /\ \E n \in 0..MaxShards :
          \E sh \in [1..n -> {<<>>, <<PushInt(1)>>, <<PushBytes(Blob(600))>>,
                              <<PushBytes(Blob(BigPush))>>}],
             sa, sb \in [1..n -> {NoState, [stack |-> <<Num(1)>>, altstack |-> <<>>],
                                  [stack |-> <<Num(1)>>, altstack |-> <<Num(2)>>]}] :
             /\ split_a = [shards |-> sh, intermediate_states |-> sa]
             /\ split_b = [shards |-> sh, intermediate_states |-> sb]
    /\ measures = <<>>
    /\ resultant_split = NoSplit /\ resultant_complexity = 0
    /\ script = <<>> /\ input = <<>> /\ split_type = "ByInstructions"
    /\ chunk_size = 1 /\ instruction_id = 0 /\ shards = <<>>
    /\ if_count = 0 /\ endif_count = 0 /\ intermediate_states = <<>>
    /\ z = NoState /\ IdleWint /\ IdleDisprove /\ result = NoResult
    /\ IdleCore

\* Both measures are taken of both results.
Measure ==
    /\ pc = "results"
    /\ measures' = [adjacent_a |-> max_adjacent_states_size(split_a),
                    adjacent_b |-> max_adjacent_states_size(split_b),
                    complexity_a |-> complexity_index(split_a),
                    complexity_b |-> complexity_index(split_b)]
    /\ pc' = "measured"
    /\ UNCHANGED <<coreVars, script, input, split_type, chunk_size, instruction_id, shards,
                   if_count, endif_count, intermediate_states, resultant_split,
                   resultant_complexity, split_a, split_b, z, wintVars, disproveVars,
                   result>>

SpecComplexity == InitComplexity /\ [][Measure]_vars

\* C15 as stated: of two results with the same shards, the one with the
\* strictly smaller max_adjacent_states_size has a complexity_index that is
\* no larger.
ComplexityMonotone ==
    (pc = "measured" /\ measures.adjacent_a < measures.adjacent_b)
    => measures.complexity_a <= measures.complexity_b

\* C15 amended: the same, for results whose shards differ in byte length by
\* at most STACK_SIZE_INDEX from one another.
ComplexityMonotoneForNearShards ==
    (/\ pc = "measured" /\ measures.adjacent_a < measures.adjacent_b
     /\ \A i, j \in 1..Len(split_a.shards) :
           ScriptLen(split_a.shards[i]) - ScriptLen(split_a.shards[j])
               <= STACK_SIZE_INDEX)
    => measures.complexity_a <= measures.complexity_b

\* Shards of 603 bytes and of 1 byte, the larger adjacent size at B.
ComplexityMonotoneWitness ==
    /\ pc = "measured"
    /\ Len(split_a.shards) = 2
    /\ ScriptLen(split_a.shards[1]) = 603 /\ ScriptLen(split_a.shards[2]) = 1
    /\ measures.adjacent_a = 1 /\ measures.adjacent_b = 3
    /\ measures.complexity_a = 1603 /\ measures.complexity_b = 3001

(***************************************************************************)
(* fuzzy_split: naive_split is tried at every chunk size of the sweep, a   *)
(* panic of a try is caught, and the try of the least complexity index is  *)
(* kept.                                                                   *)
(***************************************************************************)
MIN_CHUNK_SIZE == 100
STEP_SIZE == 20
\* usize::MAX; here the largest number at hand, above every complexity index.
USIZE_MAX == 2147483647
MaxFuzzyLen == 2

\* split_into_shards from instruction number id on, as one computation;
\* panic says that the assertion on the shard size failed.
RECURSIVE SplitFrom(_, _, _, _, _, _, _)
SplitFrom(scr, chunk, type, id, shs, ifs, endifs) ==
    IF id = Len(scr) THEN [panic |-> FALSE, shards |-> shs]
    ELSE LET instruction == scr[id + 1]
             pushed == PushInstruction(shs, instruction)
             current_shard_size == CurrentShardSize(type, id, chunk, pushed[Len(pushed)])
             ifs2 == ifs + (IF IsOpenInstr(instruction) THEN 1 ELSE 0)
             endifs2 == endifs + (IF IsCloseInstr(instruction) THEN 1 ELSE 0)
             seal == ShardIsFull(current_shard_size, chunk, ifs2, endifs2)
         IN IF current_shard_size > MAX_SCRIPT_SIZE
            THEN [panic |-> TRUE, shards |-> <<>>]
            ELSE SplitFrom(scr, chunk, type, id + 1,
                           IF seal THEN SealShard(shs, pushed) ELSE pushed,
                           IF seal THEN 0 ELSE ifs2, IF seal THEN 0 ELSE endifs2)

\* split_into_shards: a script that does not parse (its last push runs past
\* the end of the script) panics before the loop.
split_into_shards(scr, chunk, type) ==
    IF \E i \in 1..Len(scr) : scr[i].op = "TRUNCATED_PUSH"
    THEN [panic |-> TRUE, shards |-> <<>>]
    ELSE SplitFrom(scr, chunk, type, 0, <<<<>>>>, 0, 0)

\* The states naive_split collects for the first k shards.
RECURSIVE StatesOf(_, _, _)
StatesOf(inp, shs, k) ==
    IF k = 1 THEN <<from_input_script(inp, shs[1])>>
    ELSE LET before == StatesOf(inp, shs, k - 1)
         IN Append(before, from_intermediate_result(before[k - 1], shs[k]))

\* naive_split, as one computation.
naive_split(inp, scr, type, chunk) ==
    LET split == split_into_shards(scr, chunk, type)
    IN IF split.panic
       THEN [panic |-> TRUE, shards |-> <<>>, intermediate_states |-> <<>>]
       ELSE [panic |-> FALSE, shards |-> split.shards,
             intermediate_states |-> StatesOf(inp, split.shards, Len(split.shards))]

\* Scripts of pushes of 104 and 20 bytes, which may end in a push of 49990
\* bytes or in a push that is cut off.
InitFuzzy ==
    /\ pc = "fuzzy"
    /\ \E head \in SeqsUpTo({PushBytes(Blob(102)), PushBytes(Blob(19))}, MaxFuzzyLen),
          tail \in {<<>>, <<PushBytes(Blob(49987))>>, <<Op("TRUNCATED_PUSH")>>} :
          script = head \o tail
    /\ input = <<>>
    /\ split_type \in SplitTypes
    /\ chunk_size = MIN_CHUNK_SIZE
    /\ resultant_split = NoSplit /\ resultant_complexity = USIZE_MAX
    /\ split_a = NoSplit /\ split_b = NoSplit /\ measures = <<>>
    /\ instruction_id = 0 /\ shards = <<>> /\ if_count = 0 /\ endif_count = 0
    /\ intermediate_states = <<>>
    /\ z = NoState /\ IdleWint /\ IdleDisprove /\ result = NoResult
    /\ IdleCore

\* The body of the sweep, first half: naive_split is tried at chunk_size
\* under catch_unwind; its result, if it returned one, is held in shards and
\* intermediate_states.
FuzzyTry ==
    /\ pc = "fuzzy"
    /\ chunk_size < MAX_SCRIPT_SIZE
    /\ LET current_split_result == naive_split(input, script, split_type, chunk_size)
       IN /\ shards' = current_split_result.shards
          /\ intermediate_states' = current_split_result.intermediate_states
          /\ pc' = IF current_split_result.panic THEN "caught" ELSE "tried"
    /\ UNCHANGED <<coreVars, complexityVars, script, input, split_type, chunk_size,
                   instruction_id, if_count, endif_count, z, wintVars, disproveVars,
                   result>>

\* A second half that also takes a result of the same complexity index.
FuzzyKeepOnTies ==
    /\ pc \in {"tried", "caught"}
    /\ LET split_result == [shards |-> shards,
                            intermediate_states |-> intermediate_states]
           current_complexity == complexity_index(split_result)
       IN IF pc = "tried" /\ current_complexity <= resultant_complexity
          THEN /\ resultant_complexity' = current_complexity
               /\ resultant_split' = split_result
          ELSE UNCHANGED <<resultant_complexity, resultant_split>>
    /\ chunk_size' = chunk_size + STEP_SIZE
    /\ pc' = "fuzzy"
    /\ UNCHANGED <<coreVars, script, input, split_type, instruction_id, shards, if_count,
                   endif_count, intermediate_states, split_a, split_b, measures, z,
                   wintVars, disproveVars, result>>

\* The body of the sweep, second half: a result of a smaller complexity
\* index replaces resultant_split; a try that panicked is skipped.
FuzzyKeep ==
    /\ pc \in {"tried", "caught"}
    /\ LET split_result == [shards |-> shards,
                            intermediate_states |-> intermediate_states]
           current_complexity == complexity_index(split_result)
       IN IF pc = "tried" /\ current_complexity < resultant_complexity
          THEN /\ resultant_complexity' = current_complexity
               /\ resultant_split' = split_result
          ELSE UNCHANGED <<resultant_complexity, resultant_split>>
    /\ chunk_size' = chunk_size + STEP_SIZE
    /\ pc' = "fuzzy"
    /\ UNCHANGED <<coreVars, script, input, split_type, instruction_id, shards, if_count,
                   endif_count, intermediate_states, split_a, split_b, measures, z,
                   wintVars, disproveVars, result>>

\* The sweep is over: fuzzy_split returns resultant_split.
FuzzyReturn ==
    /\ pc = "fuzzy"
    /\ chunk_size >= MAX_SCRIPT_SIZE
    /\ pc' = "fuzzy_result"
    /\ UNCHANGED <<coreVars, splitVars, z, wintVars, disproveVars, result>>

SpecFuzzy == InitFuzzy /\ [][FuzzyTry \/ FuzzyKeep \/ FuzzyReturn]_vars

\* C17 as stated: for a script that does not parse, fuzzy_split (like the
\* other entry points) fails and returns nothing to its caller.
MalformedScriptIsFatal ==
    (\E i \in 1..Len(script) : script[i].op = "TRUNCATED_PUSH") => pc # "fuzzy_result"

\* C18: fuzzy_split returns the result of naive_split at the chunk size
\* that, among the chunk sizes 100, 120, 140, ... below MAX_SCRIPT_SIZE at
\* which naive_split did not panic, has the least complexity index, the
\* smallest such chunk size if several have it; chunk sizes at which it
\* panicked, before or after, do not count.
FuzzyKeepsLeastComplexity ==
    pc = "fuzzy_result" =>
        LET Try(c) == naive_split(input, script, split_type, c)
            evaluated == {c \in MIN_CHUNK_SIZE..(MAX_SCRIPT_SIZE - 1) :
                             (c - MIN_CHUNK_SIZE) % STEP_SIZE = 0 /\ ~Try(c).panic}
            indices == {complexity_index(Try(c)) : c \in evaluated}
            least == CHOOSE m \in indices : \A x \in indices : m <= x
            at_least == {c \in evaluated : complexity_index(Try(c)) = least}
            first == CHOOSE c \in at_least : \A d \in at_least : c <= d
        IN evaluated # {} =>
              /\ resultant_complexity = least
              /\ resultant_split.shards = Try(first).shards
              /\ resultant_split.intermediate_states = Try(first).intermediate_states

\* The sweep of a script for which the first chunk size panics and the
\* second gives the result that is returned.
FuzzyKeepsLeastComplexityWitness ==
    /\ pc = "fuzzy_result" /\ split_type = "ByBytes"
    /\ naive_split(input, script, split_type, MIN_CHUNK_SIZE).panic
    /\ ~naive_split(input, script, split_type, MIN_CHUNK_SIZE + STEP_SIZE).panic
    /\ Len(resultant_split.shards) = 3
    /\ resultant_split.shards[2] = <<PushBytes(Blob(49987))>>


\* ---------------------------------------------------------------------
\* Shard count and sealing of split_into_shards (SpecSplit)
\* ---------------------------------------------------------------------

\* C19 as stated: for a script of n >= 1 instructions with no OP_IF,
\* OP_NOTIF or OP_ENDIF, split_into_shards in ByInstructions mode with chunk
\* size c returns exactly ceil(n / c) shards, none of them empty.
ShardCountIsCeiling ==
    (/\ pc = "shards" /\ split_type = "ByInstructions"
     /\ Len(script) >= 1
     /\ CountOpen(script) = 0 /\ CountClose(script) = 0)
    => /\ Len(shards) = (Len(script) + chunk_size - 1) \div chunk_size
       /\ \A i \in 1..Len(shards) : shards[i] # <<>>

\* C20 as stated: in both modes, once the current shard has reached
\* chunk_size (instructions in ByInstructions mode, bytes in ByBytes mode)
\* while a conditional block is open, it is sealed immediately after the
\* first instruction at which it holds as many OP_IF + OP_NOTIF as OP_ENDIF:
\* the loop never leaves a current shard that is balanced again after it had
\* reached chunk_size with a block open.
OverlongShardSealedAtBalance ==
    (/\ pc = "split" /\ ProperlyNested(script)
     /\ shards[Len(shards)] # <<>> /\ if_count = endif_count)
    => LET current_shard == shards[Len(shards)]
       IN ~ \E k \in 1..(Len(current_shard) - 1) :
              /\ Depth(current_shard, k) > 0
              /\ (IF split_type = "ByInstructions"
                  THEN k
                  ELSE ScriptLen(SubSeq(current_shard, 1, k))) >= chunk_size


\* ---------------------------------------------------------------------
\* The value of SplitResult::complexity_index (SpecComplexity)
\* ---------------------------------------------------------------------

\* C21: complexity_index returns the greatest, over the shards i, of the
\* byte length of shard i plus 1000 times the number of mainstack and
\* altstack items of state i and of state i - 1 (none for the first shard);
\* it returns 0 for a SplitResult without shards.
ComplexityIndexIsMaxCost ==
    pc = "measured" =>
        LET states == split_a.intermediate_states
            items(i) == IF i = 0 THEN 0
                        ELSE Len(states[i].stack) + Len(states[i].altstack)
            costs == {ScriptLen(split_a.shards[i]) + (items(i) + items(i - 1)) * 1000 :
                         i \in 1..Len(split_a.shards)}
        IN /\ \A c \in costs : c <= measures.complexity_a
           /\ measures.complexity_a \in costs \cup {0}
           /\ costs # {} => measures.complexity_a \in costs

\* The second shard decides, and the state before it counts: 603 + 2 * 1000
\* for the first shard, 1 + (1 + 2) * 1000 for the second.
ComplexityIndexWitness ==
    /\ pc = "measured" /\ Len(split_a.shards) = 2
    /\ split_a.shards = <<<<PushBytes(Blob(600))>>, <<PushInt(1)>>>>
    /\ size(split_a.intermediate_states[1]) = 2
    /\ size(split_a.intermediate_states[2]) = 1
    /\ measures.complexity_a = 3001


(***************************************************************************)
(* OP_LONGNOTEQUAL on a stack that holds two runs of `length` items over   *)
(* other items, with items on the altstack.                                *)
(***************************************************************************)
MaxLong == 2

\* The stacks before the operator: up to one item below the two runs and up
\* to one item on the altstack; the runs hold 0, 1 and the two-byte 0x01 0x00.
InitLong ==
    /\ pc = "long"
    /\ length \in 0..MaxLong
    /\ \E below \in SeqsUpTo({Num(0), Num(7)}, 1),
          runs \in [1..(2 * length) -> {Num(0), Num(1), Raw(1, 1)}],
          alt \in SeqsUpTo({Num(1), Num(9)}, 1) :
          z = [stack |-> below \o runs, altstack |-> alt]
    /\ IdleSplit /\ IdleWint /\ IdleDisprove /\ result = NoResult
    /\ chunked_public_key = <<>>
    /\ operator_pubkey = 0 /\ payout_locktime = 0 /\ taptree = <<>>
    /\ payout_tx = <<>> /\ disprove_txs = <<>>
    /\ height = 0 /\ assert_height = -1 /\ spent_by = "nobody"

\* The items are pushed and the operator is executed, as in
\* test_OP_LONGNOTEQUAL_short_1.
LongNotEqual ==
    /\ pc = "long"
    /\ script' = inject_script(z) \o OP_LONGNOTEQUAL(length)
    /\ result' = execute_script(script')
    /\ pc' = "long_executed"
    /\ UNCHANGED <<coreVars, complexityVars, input, split_type, chunk_size,
                   instruction_id, shards, if_count, endif_count,
                   intermediate_states, z, wintVars, disproveVars>>

SpecLong == InitLong /\ [][LongNotEqual]_vars

\* C22: OP_LONGNOTEQUAL(l), run on a stack whose top 2l items are a[0..l-1]
\* followed by b[0..l-1], takes exactly those 2l items and leaves one
\* boolean in their place, true iff a[i] # b[i] for some i (false for
\* l = 0); the items below and the altstack are as before.
LongNotEqualResult ==
    pc = "long_executed" =>
        LET n == Len(z.stack)
            a == SubSeq(z.stack, n - 2 * length + 1, n - length)
            b == SubSeq(z.stack, n - length + 1, n)
            differ == \E i \in 1..length : a[i] # b[i]
        IN /\ ~result.error
           /\ result.main_stack =
                 Append(SubSeq(z.stack, 1, n - 2 * length),
                        IF differ THEN Num(1) ELSE Num(0))
           /\ result.alt_stack = z.altstack

\* Two runs of two items that differ in the second pair only, over an item
\* that stays, with an item on the altstack.
LongNotEqualWitness ==
    /\ pc = "long_executed" /\ length = 2
    /\ z.stack = <<Num(7), Num(1), Num(0), Num(1), Raw(1, 1)>>
    /\ z.altstack = <<Num(9)>>
    /\ result.main_stack = <<Num(7), Num(1)>>


\* ---------------------------------------------------------------------
\* The witness of a disprove transaction (SpecDisprove)
\* ---------------------------------------------------------------------

\* C23: for a DisproveScript built by DisproveScript::new, witness_elements
\* has one element per push of script_witness, in order, each the item that
\* push leaves on the VM stack (the empty element for an empty push, the
\* byte n for the small number n), so the elements are the stack that
\* executing script_witness leaves; there are 2 * N * (|from| + |to|) of
\* them.
WitnessElementsAreTheWitnessStack ==
    pc = "built" =>
        LET elements == witness_elements(disprove)
            run == execute_script(disprove.script_witness)
        IN /\ Len(elements) = Len(disprove.script_witness)
           /\ ~run.error /\ run.alt_stack = <<>>
           /\ elements = run.main_stack
           /\ Len(elements) = 2 * N * (Len(from.stack) + Len(from.altstack)
                                       + Len(to.stack) + Len(to.altstack))

\* A witness that holds an empty element (the digit 0), a one-byte element
\* (a digit from 1 to 15) and a hash.
WitnessElementsWitness ==
    /\ pc = "built"
    /\ LET elements == witness_elements(disprove)
       IN /\ Len(elements) >= 4 * N
          /\ \E i, j, h \in 1..Len(elements) :
                /\ elements[i] = Num(0)
                /\ elements[j] \in {Num(n) : n \in 1..D}
                /\ elements[h].k = "hash"


(***************************************************************************)
(* AssertTransaction: the Taproot output over the payout script and the    *)
(* disprove scripts, the transactions that spend it, and the chain that    *)
(* confirms them.                                                          *)
(*   operator_pubkey, payout_locktime   PayoutScript                       *)
(*   disprove_scripts                   the DisproveScripts of the Assert  *)
(*   distorted_shard_id                 the script a challenger can        *)
(*                                      satisfy (-1: none)                 *)
(*   taptree                            the tree of the Assert output      *)
(*   payout_tx, disprove_txs            the spending transactions built    *)
(*   height                             height of the block being filled   *)
(*   assert_height                      block of the Assert (-1: none)     *)
(*   spent_by                           who spent the Assert output        *)
(***************************************************************************)
DISPROVE_SCRIPT_WEIGHT == 1
PAYOUT_SCRIPT_WEIGHT == 5
MaxDisprove == 4
MaxLocktime == 2
MaxHeight == 3

\* PayoutScript::to_script.
to_script(pubkey, locktime) ==
    <<PushInt(locktime), Op("OP_CSV"), Op("OP_DROP"), Op("OP_DUP"), Op("OP_HASH160"),
      PushBytes(HashOf(pubkey, 1)), Op("OP_EQUALVERIFY"), Op("OP_CHECKSIG")>>

\* The leaf hash of a script and the hash of a branch, as numbers: a leaf is
\* told by the first hash it hard-codes, a branch by its two children in
\* either order.
TapLeafHash(scr) ==
    LET hashes == SelectSeq(scr, LAMBDA ins : ins.op = "PUSHBYTES" /\ ins.arg.k = "hash")
    IN hashes[1].arg.c
TapBranchHash(a, b) == ((Min2(a, b) + 1) * (Max2(a, b) + 2) * 7) % 23

\* TaprootBuilder::with_huffman_tree as form_taptree calls it: the two nodes
\* of least weight (of greatest hash among equals, the heap being a max-heap
\* of (Reverse(weight), NodeInfo)) are combined until one node is left;
\* combining puts every leaf of both one level deeper.
RECURSIVE with_huffman_tree(_)
with_huffman_tree(node_weights) ==
    IF Cardinality(node_weights) <= 1 THEN node_weights
    ELSE LET pop(nodes) ==
                 CHOOSE n \in nodes : \A o \in nodes :
                     \/ n.weight < o.weight
                     \/ n.weight = o.weight /\ n.hash >= o.hash
             n1 == pop(node_weights)
             n2 == pop(node_weights \ {n1})
             deeper(leaves) == [j \in 1..Len(leaves) |->
                                   [leaves[j] EXCEPT !.depth = @ + 1]]
             combined == [weight |-> n1.weight + n2.weight,
                          hash |-> TapBranchHash(n1.hash, n2.hash),
                          leaves |-> deeper(n1.leaves) \o deeper(n2.leaves)]
         IN with_huffman_tree((node_weights \ {n1, n2}) \cup {combined})

\* A form_taptree that gives the disprove scripts the greater weight.
form_taptree_weights_swapped(pubkey, locktime, scripts) ==
    LET leaf(w, scr) == [weight |-> w, hash |-> TapLeafHash(scr),
                         leaves |-> <<[script |-> scr, weight |-> w, depth |-> 0]>>]
        scripts_with_weights ==
            {leaf(DISPROVE_SCRIPT_WEIGHT, to_script(pubkey, locktime))}
            \cup {leaf(PAYOUT_SCRIPT_WEIGHT, scripts[i].script_pubkey) :
                     i \in 1..Len(scripts)}
        root == CHOOSE n \in with_huffman_tree(scripts_with_weights) : TRUE
    IN [merkle_root |-> root.hash, leaves |-> root.leaves]

\* AssertTransaction::form_taptree: the payout script with
\* PAYOUT_SCRIPT_WEIGHT, then every disprove script_pubkey with
\* DISPROVE_SCRIPT_WEIGHT (each leaf remembers the weight it was given).
form_taptree(pubkey, locktime, scripts) ==
    LET leaf(w, scr) == [weight |-> w, hash |-> TapLeafHash(scr),
                         leaves |-> <<[script |-> scr, weight |-> w, depth |-> 0]>>]
        scripts_with_weights ==
            {leaf(PAYOUT_SCRIPT_WEIGHT, to_script(pubkey, locktime))}
            \cup {leaf(DISPROVE_SCRIPT_WEIGHT, scripts[i].script_pubkey) :
                     i \in 1..Len(scripts)}
        root == CHOOSE n \in with_huffman_tree(scripts_with_weights) : TRUE
    IN [merkle_root |-> root.hash, leaves |-> root.leaves]

\* AssertTransaction::with_options / with_options_distorted: up to
\* MaxDisprove disprove scripts, each told by the first public key chunk its
\* script_pubkey hard-codes, the operator's key and the payout locktime.
\* The keys are numbered so that the leaf hashes come in every order; the
\* distorted shard, if there is one, is the first.
InitAssert ==
    /\ pc = "assert"
    /\ payout_locktime \in 0..MaxLocktime
    /\ \E k \in 0..MaxDisprove :
          \E keys \in {f \in [0..k -> 1..(k + 1)] :
                          \A i, j \in 0..k : f[i] = f[j] => i = j} :
             /\ operator_pubkey = keys[0]
             /\ disprove_scripts =
                   [i \in 1..k |-> [script_witness |-> <<>>,
                                    script_pubkey |-> <<PushBytes(HashOf(keys[i], D))>>]]
             /\ distorted_shard_id \in -1..Min2(0, k - 1)
    /\ taptree = <<>> /\ payout_tx = <<>> /\ disprove_txs = <<>>
    /\ height = 0 /\ assert_height = -1 /\ spent_by = "nobody"
    /\ length = 0 /\ chunked_public_key = <<>>
    /\ from = NoState /\ to = NoState /\ function = <<>>
    /\ disprove = NoDisprove /\ rng = 0 /\ successes = <<>>
    /\ IdleSplit /\ z = NoState /\ IdleWint /\ result = NoResult

\* AssertTransaction::txout: the tree is formed and committed to by the
\* Assert output.
Txout ==
    /\ pc = "assert"
    /\ taptree' = form_taptree(operator_pubkey, payout_locktime, disprove_scripts)
    /\ pc' = "output"
    /\ UNCHANGED <<splitVars, z, wintVars, disproveVars, result, length,
                   chunked_public_key, operator_pubkey, payout_locktime, payout_tx,
                   disprove_txs, height, assert_height, spent_by>>

\* taptree.control_block(script): where the leaf of the script hangs in the
\* tree that was just formed.
control_block(tree, scr) ==
    LET leaf == CHOOSE l \in {tree.leaves[j] : j \in 1..Len(tree.leaves)} :
                    l.script = scr
    IN [merkle_root |-> tree.merkle_root, depth |-> leaf.depth]

\* A payout transaction with Sequence::ZERO.
PayoutTransactionSequenceZero ==
    /\ pc = "confirmed" /\ payout_tx = <<>>
    /\ LET script_ == to_script(operator_pubkey, payout_locktime)
       IN payout_tx' =
              [version |-> 2, sequence |-> 0, script |-> script_,
               control_block |->
                   control_block(form_taptree(operator_pubkey, payout_locktime,
                                              disprove_scripts), script_)]
    /\ UNCHANGED <<splitVars, z, wintVars, disproveVars, result, length,
                   chunked_public_key, operator_pubkey, payout_locktime, taptree,
                   disprove_txs, height, assert_height, spent_by, pc>>

\* AssertTransaction::payout_transaction: version 2, the sequence is the
\* locktime of the payout script, the control block comes from a tree formed
\* anew.
PayoutTransaction ==
    /\ pc = "confirmed" /\ payout_tx = <<>>
    /\ LET script_ == to_script(operator_pubkey, payout_locktime)
       IN payout_tx' =
              [version |-> 2, sequence |-> payout_locktime, script |-> script_,
               control_block |->
                   control_block(form_taptree(operator_pubkey, payout_locktime,
                                              disprove_scripts), script_)]
    /\ UNCHANGED <<splitVars, z, wintVars, disproveVars, result, length,
                   chunked_public_key, operator_pubkey, payout_locktime, taptree,
                   disprove_txs, height, assert_height, spent_by, pc>>

\* AssertTransaction::disprove_transactions: one transaction per disprove
\* script, version 1 with Sequence::ZERO.
DisproveTransactions ==
    /\ pc = "confirmed" /\ disprove_txs = <<>>
    /\ Len(disprove_scripts) >= 1
    /\ LET tree == form_taptree(operator_pubkey, payout_locktime, disprove_scripts)
       IN disprove_txs' =
              [i \in 1..Len(disprove_scripts) |->
                  [version |-> 1, sequence |-> 0,
                   script |-> disprove_scripts[i].script_pubkey,
                   control_block |->
                       control_block(tree, disprove_scripts[i].script_pubkey)]]
    /\ UNCHANGED <<splitVars, z, wintVars, disproveVars, result, length,
                   chunked_public_key, operator_pubkey, payout_locktime, taptree,
                   payout_tx, height, assert_height, spent_by, pc>>

\* The Assert transaction is included in the block being filled.
Confirm ==
    /\ pc = "output"
    /\ assert_height' = height
    /\ pc' = "confirmed"
    /\ UNCHANGED <<splitVars, z, wintVars, disproveVars, result, length,
                   chunked_public_key, operator_pubkey, payout_locktime, taptree,
                   payout_tx, disprove_txs, height, spent_by>>

\* The block is closed and the next one is started.
MineBlock ==
    /\ pc \in {"output", "confirmed"}
    /\ height < MaxHeight
    /\ height' = height + 1
    /\ UNCHANGED <<splitVars, z, wintVars, disproveVars, result, length,
                   chunked_public_key, operator_pubkey, payout_locktime, taptree,
                   payout_tx, disprove_txs, assert_height, spent_by, pc>>

\* A transaction built above can be included in the block being filled: the
\* Assert output is confirmed and unspent, the control block is of the tree
\* the output commits to, a version 2 input waits `sequence` blocks after the
\* Assert, and the leaf script is satisfied: OP_CSV of the payout script
\* wants version 2 and a sequence of at least its operand (the operator
\* holds the key for the rest), a disprove script is satisfied by its
\* witness iff it is the script of the distorted shard.
Spends(tx) ==
    /\ pc = "confirmed" /\ spent_by = "nobody"
    /\ tx.control_block.merkle_root = taptree.merkle_root
    /\ \E j \in 1..Len(taptree.leaves) :
          /\ taptree.leaves[j].script = tx.script
          /\ taptree.leaves[j].depth = tx.control_block.depth
    /\ tx.version >= 2 => height >= assert_height + tx.sequence
    /\ IF Len(tx.script) >= 2 /\ tx.script[2] = Op("OP_CSV")
       THEN tx.version >= 2 /\ tx.script[1].arg.v <= tx.sequence
       ELSE /\ distorted_shard_id >= 0
            /\ tx.script = disprove_scripts[distorted_shard_id + 1].script_pubkey

\* The operator's payout transaction spends the Assert output.
SpendPayout ==
    /\ payout_tx # <<>>
    /\ Spends(payout_tx)
    /\ spent_by' = "payout"
    /\ UNCHANGED <<splitVars, z, wintVars, disproveVars, result, length,
                   chunked_public_key, operator_pubkey, payout_locktime, taptree,
                   payout_tx, disprove_txs, height, assert_height, pc>>

\* A challenger's disprove transaction spends the Assert output.
SpendDisprove ==
    /\ \E i \in 1..Len(disprove_txs) : Spends(disprove_txs[i])
    /\ spent_by' = "disprove"
    /\ UNCHANGED <<splitVars, z, wintVars, disproveVars, result, length,
                   chunked_public_key, operator_pubkey, payout_locktime, taptree,
                   payout_tx, disprove_txs, height, assert_height, pc>>

SpecAssert ==
    InitAssert /\ [][Txout \/ PayoutTransaction \/ DisproveTransactions \/ Confirm
                     \/ MineBlock \/ SpendPayout \/ SpendDisprove]_vars

\* C24: the tree of an AssertTransaction with k disprove scripts has exactly
\* 1 + k leaves, the payout script with weight 5 and every disprove
\* script_pubkey with weight 1; the payout leaf is no deeper than any
\* disprove leaf; and the tree formed again for a spending transaction is
\* the tree of the output (same root, same place of the leaf).
TaptreeLeavesAndDepths ==
    pc \in {"output", "confirmed"} =>
        LET leaves == {taptree.leaves[j] : j \in 1..Len(taptree.leaves)}
            k == Len(disprove_scripts)
            payout == {l \in leaves :
                          l.script = to_script(operator_pubkey, payout_locktime)}
        IN /\ Len(taptree.leaves) = 1 + k /\ Cardinality(leaves) = 1 + k
           /\ Cardinality(payout) = 1
           /\ \A p \in payout :
                 /\ p.weight = 5
                 /\ \A l \in leaves : p.depth <= l.depth
           /\ \A i \in 1..k : \E l \in leaves \ payout :
                 l.script = disprove_scripts[i].script_pubkey /\ l.weight = 1
           /\ \A tx \in {payout_tx} \cup {disprove_txs[i] : i \in 1..Len(disprove_txs)} :
                 tx # <<>> =>
                    /\ tx.control_block.merkle_root = taptree.merkle_root
                    /\ \E l \in leaves : l.script = tx.script
                                         /\ l.depth = tx.control_block.depth

\* Three disprove scripts: the payout leaf hangs at depth 1 and the disprove
\* leaves at depths 2 and 3; both kinds of transaction have been built.
TaptreeWitness ==
    /\ pc = "confirmed" /\ Len(disprove_scripts) = 3
    /\ payout_tx # <<>> /\ disprove_txs # <<>>
    /\ payout_tx.control_block.depth = 1
    /\ \E i, j \in 1..3 : /\ disprove_txs[i].control_block.depth = 2
                          /\ disprove_txs[j].control_block.depth = 3


\* C25 as stated: the payout transaction cannot spend the Assert output
\* before payout_locktime blocks have passed since the Assert was confirmed
\* (and can from then on), every disprove transaction whose script is
\* satisfiable can spend it at any height from the confirmation on, and so
\* the challenger can spend strictly before the payout is valid: in the
\* block of the Assert the disprove transaction can be included and the
\* payout transaction cannot.
ChallengeBeforePayout ==
    /\ spent_by = "payout" => height >= assert_height + payout_locktime
    /\ (pc = "confirmed" /\ spent_by = "nobody" /\ payout_tx # <<>>
        /\ height >= assert_height + payout_locktime) => ENABLED SpendPayout
    /\ (pc = "confirmed" /\ spent_by = "nobody" /\ disprove_txs # <<>>
        /\ distorted_shard_id >= 0) => ENABLED SpendDisprove
    /\ (pc = "confirmed" /\ spent_by = "nobody" /\ disprove_txs # <<>>
        /\ payout_tx # <<>> /\ distorted_shard_id >= 0 /\ height = assert_height)
       => ENABLED SpendDisprove /\ ~ ENABLED SpendPayout

\* C25, amended: the same, the challenger being ahead of the payout when
\* payout_locktime is at least 1.
ChallengeBeforeLockedPayout ==
    /\ spent_by = "payout" => height >= assert_height + payout_locktime
    /\ (pc = "confirmed" /\ spent_by = "nobody" /\ payout_tx # <<>>
        /\ height >= assert_height + payout_locktime) => ENABLED SpendPayout
    /\ (pc = "confirmed" /\ spent_by = "nobody" /\ disprove_txs # <<>>
        /\ distorted_shard_id >= 0) => ENABLED SpendDisprove
    /\ (pc = "confirmed" /\ spent_by = "nobody" /\ disprove_txs # <<>>
        /\ payout_tx # <<>> /\ distorted_shard_id >= 0 /\ height = assert_height
        /\ payout_locktime >= 1)
       => ENABLED SpendDisprove /\ ~ ENABLED SpendPayout

\* A disprove transaction has spent the Assert output one block after the
\* Assert, a block before the payout transaction, which was built, is valid.
ChallengeBeforeLockedPayoutWitness ==
    /\ spent_by = "disprove" /\ payout_tx # <<>>
    /\ payout_locktime = 2 /\ height = assert_height + 1


\* ---------------------------------------------------------------------
\* The counters of split_into_shards (SpecSplit)
\* ---------------------------------------------------------------------

\* The shards of the loop of split_into_shards when if_count and
\* endif_count are never reset: after[i] holds the shards and the counters
\* after i instructions.
SplitWithoutReset(scr, chunk, type) ==
    LET after[i \in 0..Len(scr)] ==
            IF i = 0 THEN [shards |-> <<<<>>>>, ifs |-> 0, endifs |-> 0]
            ELSE LET instruction == scr[i]
                     pushed == PushInstruction(after[i - 1].shards, instruction)
                     current_shard_size ==
                         CurrentShardSize(type, i - 1, chunk, pushed[Len(pushed)])
                     ifs == after[i - 1].ifs
                            + (IF IsOpenInstr(instruction) THEN 1 ELSE 0)
                     endifs == after[i - 1].endifs
                               + (IF IsCloseInstr(instruction) THEN 1 ELSE 0)
                 IN [shards |-> IF ShardIsFull(current_shard_size, chunk, ifs, endifs)
                                THEN SealShard(after[i - 1].shards, pushed)
                                ELSE pushed,
                     ifs |-> ifs, endifs |-> endifs]
    IN after[Len(scr)].shards

\* C26: for every script, chunk size and mode, split_into_shards returns
\* the shards that the same loop returns when it never resets if_count and
\* endif_count after sealing a shard: the reset changes no sealing decision.
ResetChangesNoSealing ==
    pc = "shards" => shards = SplitWithoutReset(script, chunk_size, split_type)

\* Two shards were sealed, each after a conditional block of its own, so
\* the counters were reset while they were not zero.
ResetChangesNoSealingWitness ==
    /\ pc = "shards" /\ Len(shards) >= 3
    /\ CountOpen(shards[1]) >= 1 /\ CountOpen(shards[2]) >= 1


(***************************************************************************)
(* Winternitz signatures of byte messages with a chunked public key        *)
(* (bitcoin-winternitz/src/lib.rs).                                        *)
(***************************************************************************)
MaxBytes == 2

\* The bytes of a message: the extremes, and 30, whose two digits are the
\* checksum digits of the one-byte message 0.
ByteValues == {0, 1, 30, 255}
ByteStrings == SeqsUpTo(ByteValues, MaxBytes)

\* Message::from_bytes: the derived Default for no bytes; otherwise n0 digits
\* of BITS_PER_DIGIT bits, least significant first, followed by n1 digits of
\* the checksum D * n0 - sum.
Message_from_bytes(bytes) ==
    IF bytes = <<>> THEN [parts |-> <<>>, n0 |-> 0, n1 |-> 0]
    ELSE LET v == Len(bytes) * 8
             n0 == (v + BITS_PER_DIGIT - 1) \div BITS_PER_DIGIT
             digits == [i \in 1..n0 |->
                           LET byte == bytes[((i - 1) \div 2) + 1]
                           IN IF i % 2 = 1 THEN byte % 16 ELSE byte \div 16]
             n1 == ILog(D * n0, D + 1) + 1
             checksum == D * n0 - SumSeq(digits)
         IN [parts |-> digits \o [i \in 1..n1 |-> (checksum \div Pow16(i - 1)) % 16],
             n0 |-> n0, n1 |-> n1]

\* SecretKey::from_seed(seed, chunks_num): chunks_num random chunks, here
\* the starts of hash chains that no other seed shares.
SecretKey_from_seed(seed, chunks_num) == [j \in 1..chunks_num |-> HashOf(seed * 16 + j, 0)]

\* SecretKey::chunked_public_key: every chunk hashed D times.
SecretKey_chunked_public_key(sk) == [j \in 1..Len(sk) |-> HashTimes(sk[j], D)]

\* SecretKey::sign: the key's chunks zipped with the message's parts, chunk
\* j hashed parts[j] times.
SecretKey_sign(sk, m) ==
    [j \in 1..Min2(Len(sk), Len(m.parts)) |-> HashTimes(sk[j], m.parts[j])]

\* ChunkedPublicKey::verify: the message's parts, the signature's chunks and
\* the key's chunks are zipped; false at the first triple whose chain does
\* not end in the key's chunk, true when the zip is exhausted.
ChunkedPublicKey_verify(pk, m, sig) ==
    \A j \in 1..Min2(Min2(Len(m.parts), Len(sig)), Len(pk)) :
        HashTimes(sig[j], D - m.parts[j]) = pk[j]

InitChunked ==
    /\ pc = "chunked"
    /\ secret_key \in 1..MaxKey
    /\ msg \in {Message_from_bytes(b) : b \in ByteStrings}
    /\ signature = <<>> /\ tampered = FALSE /\ verified = FALSE
    /\ word = 0 /\ shifted = 0 /\ buf = <<>> /\ filled = 0 /\ digit_sum = 0
    /\ recovered = 0
    /\ IdleSplit /\ z = NoState /\ IdleDisprove /\ result = NoResult
    /\ IdleCore

\* A key of as many chunks as some message has parts is made and its chunked
\* public key published.
ChunkedKey ==
    /\ pc = "chunked"
    /\ \E b \in ByteStrings :
          chunked_public_key' = SecretKey_chunked_public_key(
              SecretKey_from_seed(secret_key, Len(Message_from_bytes(b).parts)))
    /\ pc' = "keyed"
    /\ UNCHANGED <<length, assertVars, splitVars, z, wintVars, disproveVars, result>>

\* The key signs a message.
ChunkedSign ==
    /\ pc = "keyed"
    /\ \E b \in ByteStrings :
          signature' = SecretKey_sign(
              SecretKey_from_seed(secret_key, Len(chunked_public_key)),
              Message_from_bytes(b))
    /\ pc' = "chunk_signed"
    /\ UNCHANGED <<coreVars, splitVars, z, secret_key, msg, tampered, verified, disproveVars,
                   result, partitionVars>>

\* ChunkedPublicKey::verify of msg and the signature.
ChunkedVerify ==
    /\ pc = "chunk_signed"
    /\ verified' = ChunkedPublicKey_verify(chunked_public_key, msg, signature)
    /\ pc' = "chunk_verified"
    /\ UNCHANGED <<coreVars, splitVars, z, secret_key, msg, signature, tampered, disproveVars,
                   result, partitionVars>>

SpecChunked == InitChunked /\ [][ChunkedKey \/ ChunkedSign \/ ChunkedVerify]_vars

\* C29 as stated: ChunkedPublicKey::verify returns true only when the
\* message, the signature and the key have the same number of chunks and
\* every chunk of the signature, hashed D - msg[j] more times, is the key's
\* chunk j.
ChunkedVerifyChecksEveryChunk ==
    (pc = "chunk_verified" /\ verified) =>
        /\ Len(msg.parts) = Len(chunked_public_key)
        /\ Len(signature) = Len(chunked_public_key)
        /\ \A j \in 1..Len(chunked_public_key) :
              HashTimes(signature[j], D - msg.parts[j]) = chunked_public_key[j]

====
